---------------------------- MODULE Spec2Model ----------------------------
(***************************************************************************)
(* A model of the prime-field and multi-precision arithmetic of Micro25519 *)
(* (gfparith.c, mpiarith.c, config.h) over p = 2^255 - 19.                 *)
(*                                                                         *)
(* Number representation.  TLC's integers are 32 bits wide, so a C integer *)
(* of a fixed width is modelled as the little-endian tuple of its 16-bit   *)
(* limbs:  a Word (uint32_t) is <<lo, hi>> with value lo + 2^16*hi, a      *)
(* DWord (uint64_t) and an SDWord (int64_t, two's complement) are tuples   *)
(* of four limbs.  A multi-precision integer / field element is a tuple of *)
(* Words, index 1 of the model being index 0 of the C array.               *)
(***************************************************************************)
EXTENDS Integers, Sequences, FiniteSets, TLC

(***************************************************************************)
(* config.h                                                                *)
(***************************************************************************)
CONSTK == 255
CONSTC == 19
WSIZE == 32
LEN == (CONSTK + WSIZE - 1) \div WSIZE
M25519_NO_ERROR == 0
M25519_ERR_INVERS == 2

\* Limbs: half a Word each.
LimbBits == WSIZE \div 2
Base == 2^LimbBits
WordLimbs == WSIZE \div LimbBits
DWordLimbs == 2 * WordLimbs

Pow2(n) == 2^n

(***************************************************************************)
(* Fixed-width machine arithmetic on limb tuples (width = Len of tuple).   *)
(***************************************************************************)
\* The tuple <<f[1], ..., f[n]>> of a function f on 1..n.
Tup(f) == f \o <<>>

Zero(n) == Tup([i \in 1..n |-> 0])

\* A small non-negative C integer constant 0 <= v < 2^31 as an n-limb value.
FromInt(v, n) ==
    Tup([i \in 1..n |-> IF i = 1 THEN v % Base
                        ELSE IF i = 2 THEN (v \div Base) % Base ELSE 0])

\* Zero extension or truncation to n limbs: (DWord) w, (Word) d.
Resize(x, n) == Tup([i \in 1..n |-> IF i <= Len(x) THEN x[i] ELSE 0])
ToDWord(x) == Resize(x, DWordLimbs)
ToWord(x) == Resize(x, WordLimbs)

\* x + y + c modulo 2^(16*Len(x)) for a carry-in c of 0 or 1; x and y have
\* the same width.  The carry into limb i is 1 iff some limb below i
\* generates a carry (or the carry-in enters at limb 0) and every limb in
\* between propagates it.
AddC(x, y, c) ==
    LET g == [j \in 0..Len(x) |-> IF j = 0 THEN c = 1 ELSE x[j] + y[j] >= Base]
        carry(i) == \E j \in 0..(i - 1) :
                        /\ g[j]
                        /\ \A k \in (j + 1)..(i - 1) : x[k] + y[k] = Base - 1
    IN  Tup([i \in 1..Len(x) |-> (x[i] + y[i] + (IF carry(i) THEN 1 ELSE 0)) % Base])

\* x + y modulo 2^(16*Len(x)).
UAdd(x, y) == AddC(x, y, 0)

\* Bitwise complement.
UNot(x) == Tup([i \in 1..Len(x) |-> Base - 1 - x[i]])

\* x - y modulo 2^(16*Len(x)), as x + ~y + 1.
USub(x, y) == AddC(x, UNot(y), 1)

\* A C integer constant -2^31 < v < 2^31 converted to an n-limb value
\* (two's complement for negative v): (Word) -4L, (SDWord) CONSTC, ...
Cast(v, n) == IF v >= 0 THEN FromInt(v, n) ELSE USub(Zero(n), FromInt(-v, n))

\* Bitwise AND of two limbs.
RECURSIVE And16(_, _)
And16(x, y) ==
    IF x = 0 \/ y = 0 THEN 0
    ELSE IF y = Base - 1 THEN x
    ELSE IF x = Base - 1 THEN y
    ELSE (x % 2) * (y % 2) + 2 * And16(x \div 2, y \div 2)

UAnd(x, y) == Tup([i \in 1..Len(x) |-> And16(x[i], y[i])])
UOr(x, y) == Tup([i \in 1..Len(x) |-> x[i] + y[i] - And16(x[i], y[i])])
UXor(x, y) == Tup([i \in 1..Len(x) |-> x[i] + y[i] - 2 * And16(x[i], y[i])])

\* Limb i of x, 0 outside the tuple.
Limb(x, i) == IF i >= 1 /\ i <= Len(x) THEN x[i] ELSE 0

\* Sign bit of a two's complement value.
IsNeg(x) == x[Len(x)] >= Base \div 2

\* x shifted right by 0 <= s bits within its width; the limbs above the top
\* of x read as f.
ShrFill(x, s, f) ==
    LET n == Len(x)
        q == s \div LimbBits
        t == s % LimbBits
        d == Pow2(t)
        e == Pow2(LimbBits - t)
    IN  IF t = 0
        THEN Tup([i \in 1..n |-> IF i + q <= n THEN x[i + q] ELSE f])
        ELSE Tup([i \in 1..n |->
                    ((IF i + q <= n THEN x[i + q] ELSE f) \div d)
                    + (((IF i + q + 1 <= n THEN x[i + q + 1] ELSE f) % d) * e)])

\* Logical shifts by 0 <= s bits within the width of x.
UShl(x, s) ==
    LET q == s \div LimbBits
        t == s % LimbBits
        d == Pow2(t)
        e == Pow2(LimbBits - t)
    IN  IF t = 0
        THEN Tup([i \in 1..Len(x) |-> IF i - q >= 1 THEN x[i - q] ELSE 0])
        ELSE Tup([i \in 1..Len(x) |->
                    (((IF i - q >= 1 THEN x[i - q] ELSE 0) * d) % Base)
                    + ((IF i - q - 1 >= 1 THEN x[i - q - 1] ELSE 0) \div e)])

UShr(x, s) == ShrFill(x, s, 0)

\* Arithmetic (sign-preserving) right shift of a signed value.
SShr(x, s) == ShrFill(x, s, IF IsNeg(x) THEN Base - 1 ELSE 0)

\* Unsigned comparison of two values of the same width.
ULt(x, y) ==
    \E i \in 1..Len(x) :
        /\ x[i] < y[i]
        /\ \A j \in (i + 1)..Len(x) : x[j] = y[j]

\* Product of two limbs as <<lo, hi>>, computed through 8-bit pieces so
\* that no intermediate value exceeds 31 bits.
Mul16(a, b) ==
    LET a0 == a % 256
        a1 == a \div 256
        x  == a1 * b
        t  == a0 * b + (x % 256) * 256
    IN  <<t % Base, (x \div 256) + (t \div Base)>>

RECURSIVE SumSeq(_, _)
SumSeq(s, i) == IF i = 0 THEN 0 ELSE s[i] + SumSeq(s, i - 1)

\* x * y modulo 2^(16*n), for x and y of at most 2^14 limbs together.  Column
\* k (weight Base^(k-1)) is the sum of the low halves of the limb products
\* x[i]*y[k+1-i] and of the high halves of the products x[i]*y[k-i]; the
\* columns' own high parts are carried into the next column by one addition.
UMul(x, y, n) ==
    LET m    == Len(x)
        P    == Tup([i \in 1..m |-> Tup([j \in 1..Len(y) |-> Mul16(x[i], y[j])])])
        part(i, j, h) == IF j >= 1 /\ j <= Len(y) THEN P[i][j][h] ELSE 0
        col  == Tup([k \in 1..n |->
                    SumSeq(Tup([i \in 1..m |->
                                part(i, k + 1 - i, 1) + part(i, k - i, 2)]), m)])
        lo   == Tup([k \in 1..n |-> col[k] % Base])
        hi   == Tup([k \in 1..n |-> IF k = 1 THEN 0 ELSE col[k - 1] \div Base])
    IN  UAdd(lo, hi)

\* The value of a small non-negative machine integer (a carry, a flag).
IntOf(x) == x[1] + Base * (x[2] % (Base \div 2))

\* The Word 1 or 0 of a C comparison.
BoolWord(c) == FromInt(IF c THEN 1 ELSE 0, WordLimbs)

(***************************************************************************)
(* gfparith.c: masks                                                       *)
(***************************************************************************)
ALL1MASK == Cast(-1, WordLimbs)
MSB1MASK == UShl(Cast(1, WordLimbs), WSIZE - 1)
MSB0MASK == UShr(ALL1MASK, 1)
MIN4MASK == Cast(-4, WordLimbs)
FOURXPHI == UShl(ToDWord(MSB0MASK), 2)
FOURXPMI == UShl(ToDWord(ALL1MASK), 2)
FOURXPLO == UShl(ToDWord(USub(ALL1MASK, Cast(CONSTC - 1, WordLimbs))), 2)

(***************************************************************************)
(* Memory: a function from buffer names (pointers) to Word arrays.  Two    *)
(* pointers alias exactly when they are the same name.  rd and wr take the *)
(* C index (0-based).                                                      *)
(***************************************************************************)
rd(mem, p, i) == mem[p][i + 1]
wr(mem, p, i, w) == [mem EXCEPT ![p][i + 1] = w]

\* A stack-local array, of unspecified content until it is written.
Alloc(mem, p, n) ==
    [q \in DOMAIN mem \cup {p} |->
        IF q = p THEN Tup([i \in 1..n |-> Zero(WordLimbs)]) ELSE mem[q]]
\* The locals go out of scope on return.
Free(mem, ps) == [q \in DOMAIN mem \ ps |-> mem[q]]

(***************************************************************************)
(* Loops.  A C loop is a recursive operator over its loop state st, a      *)
(* record of the loop counter i and of what the loop body assigns (mem,    *)
(* the accumulator, a local array); the result is the state at loop exit.  *)
(***************************************************************************)

(***************************************************************************)
(* mpiarith.c                                                              *)
(***************************************************************************)
RECURSIVE mpi_setw_loop(_, _)
mpi_setw_loop(st, rp) ==
    IF st.i > 0
    THEN mpi_setw_loop([i |-> st.i - 1,
                        mem |-> wr(st.mem, rp, st.i, Zero(WordLimbs))], rp)
    ELSE st

mpi_setw(mem, rp, w, len) ==
    wr(mpi_setw_loop([i |-> len - 1, mem |-> mem], rp).mem, rp, 0, w)

RECURSIVE mpi_cmpw_loop(_, _)
mpi_cmpw_loop(st, arr) ==
    IF st.i > 0
    THEN mpi_cmpw_loop([i |-> st.i - 1, is0 |-> UOr(st.is0, arr[st.i + 1])], arr)
    ELSE st

\* Faulty variant of mpi_cmpw: only the least significant word is compared,
\* the words above it are never looked at.
mpi_cmpw_low(arr, w, len) ==
    LET up == IntOf(BoolWord(ULt(arr[1], w)))
        dn == IntOf(BoolWord(ULt(w, arr[1])))
    IN  0 + up - dn

mpi_cmpw(arr, w, len) ==
    LET is0 == mpi_cmpw_loop([i |-> len - 1, is0 |-> Zero(WordLimbs)], arr).is0
        z   == Zero(WordLimbs)
        up  == IntOf(UOr(BoolWord(ULt(arr[1], w)), BoolWord(is0 # z)))
        dn  == IntOf(UAnd(BoolWord(ULt(w, arr[1])), BoolWord(is0 = z)))
    IN  0 + up - dn

\* Faulty variant of mpi_cmp_loop: the bits of the words compared before are
\* not shifted up, so that all words count the same.
RECURSIVE mpi_cmp_loop_noshift(_, _, _)
mpi_cmp_loop_noshift(st, x, y) ==
    IF st.i >= 0
    THEN mpi_cmp_loop_noshift(
            [i  |-> st.i - 1,
             lt |-> UOr(st.lt, BoolWord(ULt(x[st.i + 1], y[st.i + 1]))),
             gt |-> UOr(st.gt, BoolWord(ULt(y[st.i + 1], x[st.i + 1])))],
            x, y)
    ELSE st

\* Faulty variant of mpi_cmp_loop: the loop is left at the first word in
\* which the two integers differ.
RECURSIVE mpi_cmp_loop_early(_, _, _)
mpi_cmp_loop_early(st, x, y) ==
    IF st.i >= 0 /\ st.lt = st.gt
    THEN mpi_cmp_loop_early(
            [i  |-> st.i - 1,
             lt |-> UOr(UShl(st.lt, 1), BoolWord(ULt(x[st.i + 1], y[st.i + 1]))),
             gt |-> UOr(UShl(st.gt, 1), BoolWord(ULt(y[st.i + 1], x[st.i + 1])))],
            x, y)
    ELSE st

RECURSIVE mpi_cmp_loop(_, _, _)
mpi_cmp_loop(st, x, y) ==
    IF st.i >= 0
    THEN mpi_cmp_loop(
            [i  |-> st.i - 1,
             lt |-> UOr(UShl(st.lt, 1), BoolWord(ULt(x[st.i + 1], y[st.i + 1]))),
             gt |-> UOr(UShl(st.gt, 1), BoolWord(ULt(y[st.i + 1], x[st.i + 1])))],
            x, y)
    ELSE st

mpi_cmp(x, y, len) ==
    LET v == mpi_cmp_loop([i |-> len - 1, lt |-> Zero(WordLimbs),
                           gt |-> Zero(WordLimbs)], x, y)
    IN  0 + (IF ULt(v.lt, v.gt) THEN 1 ELSE 0) - (IF ULt(v.gt, v.lt) THEN 1 ELSE 0)

RECURSIVE mpi_copy_loop(_, _, _)
mpi_copy_loop(st, rp, ap) ==
    IF st.i >= 0
    THEN mpi_copy_loop([i |-> st.i - 1,
                        mem |-> wr(st.mem, rp, st.i, rd(st.mem, ap, st.i))], rp, ap)
    ELSE st

mpi_copy(mem, rp, ap, len) == mpi_copy_loop([i |-> len - 1, mem |-> mem], rp, ap).mem

RECURSIVE mpi_add_loop(_, _, _, _, _)
mpi_add_loop(st, rp, ap, bp, len) ==
    IF st.i < len
    THEN LET s == UAdd(st.sum, UAdd(ToDWord(rd(st.mem, ap, st.i)),
                                    ToDWord(rd(st.mem, bp, st.i))))
         IN  mpi_add_loop([i |-> st.i + 1, mem |-> wr(st.mem, rp, st.i, ToWord(s)),
                           sum |-> UShr(s, WSIZE)], rp, ap, bp, len)
    ELSE st

mpi_add(mem, rp, ap, bp, len) ==
    LET st == mpi_add_loop([i |-> 0, mem |-> mem, sum |-> Zero(DWordLimbs)],
                           rp, ap, bp, len)
    IN  [mem |-> st.mem, ret |-> IntOf(st.sum)]

RECURSIVE mpi_cadd_loop(_, _, _, _, _, _)
mpi_cadd_loop(st, rp, ap, bp, mask, len) ==
    IF st.i < len
    THEN LET s == UAdd(st.sum, UAdd(ToDWord(rd(st.mem, ap, st.i)),
                                    ToDWord(UAnd(rd(st.mem, bp, st.i), mask))))
         IN  mpi_cadd_loop([i |-> st.i + 1, mem |-> wr(st.mem, rp, st.i, ToWord(s)),
                            sum |-> UShr(s, WSIZE)], rp, ap, bp, mask, len)
    ELSE st

\* Faulty variant of mpi_cadd: the mask is taken from "add != 0" instead of
\* the least significant bit of add.
mpi_cadd_nonzero(mem, rp, ap, bp, add, len) ==
    LET mask == USub(Zero(WordLimbs), BoolWord(add # 0))
        st   == mpi_cadd_loop([i |-> 0, mem |-> mem, sum |-> Zero(DWordLimbs)],
                              rp, ap, bp, mask, len)
    IN  [mem |-> st.mem, ret |-> IntOf(st.sum)]

mpi_cadd(mem, rp, ap, bp, add, len) ==
    LET mask == Cast(0 - (add % 2), WordLimbs)
        st   == mpi_cadd_loop([i |-> 0, mem |-> mem, sum |-> Zero(DWordLimbs)],
                              rp, ap, bp, mask, len)
    IN  [mem |-> st.mem, ret |-> IntOf(st.sum)]

RECURSIVE mpi_shr_loop(_, _, _, _)
mpi_shr_loop(st, rp, ap, len) ==
    IF st.i < len - 1
    THEN mpi_shr_loop(
            [i   |-> st.i + 1,
             mem |-> wr(st.mem, rp, st.i,
                        UOr(UShl(rd(st.mem, ap, st.i + 1), WSIZE - 1),
                            UShr(rd(st.mem, ap, st.i), 1)))],
            rp, ap, len)
    ELSE st

mpi_shr(mem, rp, ap, len) ==
    LET retval == IntOf(UAnd(rd(mem, ap, 0), Cast(1, WordLimbs)))
        m == mpi_shr_loop([i |-> 0, mem |-> mem], rp, ap, len).mem
    IN  [mem |-> wr(m, rp, len - 1, UShr(rd(m, ap, len - 1), 1)),
         ret |-> retval]

RECURSIVE mpi_sub_loop(_, _, _, _, _)
mpi_sub_loop(st, rp, ap, bp, len) ==
    IF st.i < len
    THEN LET d == UAdd(st.dif, UAdd(ToDWord(rd(st.mem, ap, st.i)),
                                    ToDWord(UNot(rd(st.mem, bp, st.i)))))
         IN  mpi_sub_loop([i |-> st.i + 1, mem |-> wr(st.mem, rp, st.i, ToWord(d)),
                           dif |-> UShr(d, WSIZE)], rp, ap, bp, len)
    ELSE st

\* Faulty variant of mpi_sub: dif starts at 0, the 1 that completes the two's
\* complement of b is missing.
mpi_sub_noone(mem, rp, ap, bp, len) ==
    LET st == mpi_sub_loop([i |-> 0, mem |-> mem, dif |-> Zero(DWordLimbs)],
                           rp, ap, bp, len)
    IN  [mem |-> st.mem, ret |-> 1 - IntOf(st.dif)]

mpi_sub(mem, rp, ap, bp, len) ==
    LET st == mpi_sub_loop([i |-> 0, mem |-> mem, dif |-> Cast(1, DWordLimbs)],
                           rp, ap, bp, len)
    IN  [mem |-> st.mem, ret |-> 1 - IntOf(st.dif)]

\* Faulty variant of mpi_mul_row_loop: the row for b[0] adds r[j] like the
\* other rows, before r has been written.
RECURSIVE mpi_mul_row_loop_acc(_, _, _, _, _, _)
mpi_mul_row_loop_acc(st, rp, ap, w, i, len) ==
    IF st.j < len
    THEN LET p1 == UAdd(st.prod, UMul(ToDWord(rd(st.mem, ap, st.j)), ToDWord(w),
                                      DWordLimbs))
             p2 == UAdd(p1, ToDWord(rd(st.mem, rp, i + st.j)))
         IN  mpi_mul_row_loop_acc([j |-> st.j + 1,
                                   mem |-> wr(st.mem, rp, i + st.j, ToWord(p2)),
                                   prod |-> UShr(p2, WSIZE)], rp, ap, w, i, len)
    ELSE wr(st.mem, rp, i + st.j, ToWord(st.prod))

\* mpi_mul: the loop over j of the row for b[i], which adds a[j] * b[i] and,
\* for i > 0, r[i+j] to prod; the word above the row is written after it.
RECURSIVE mpi_mul_row_loop(_, _, _, _, _, _)
mpi_mul_row_loop(st, rp, ap, w, i, len) ==
    IF st.j < len
    THEN LET p1 == UAdd(st.prod, UMul(ToDWord(rd(st.mem, ap, st.j)), ToDWord(w),
                                      DWordLimbs))
             p2 == IF i > 0 THEN UAdd(p1, ToDWord(rd(st.mem, rp, i + st.j))) ELSE p1
         IN  mpi_mul_row_loop([j |-> st.j + 1,
                               mem |-> wr(st.mem, rp, i + st.j, ToWord(p2)),
                               prod |-> UShr(p2, WSIZE)], rp, ap, w, i, len)
    ELSE wr(st.mem, rp, i + st.j, ToWord(st.prod))

RECURSIVE mpi_mul_rows(_, _, _, _, _)
mpi_mul_rows(st, rp, ap, bp, len) ==
    IF st.i < len
    THEN mpi_mul_rows(
            [i   |-> st.i + 1,
             mem |-> mpi_mul_row_loop([j |-> 0, mem |-> st.mem, prod |-> Zero(DWordLimbs)],
                                      rp, ap, rd(st.mem, bp, st.i), st.i, len)],
            rp, ap, bp, len)
    ELSE st.mem

mpi_mul(mem, rp, ap, bp, len) == mpi_mul_rows([i |-> 0, mem |-> mem], rp, ap, bp, len)

(***************************************************************************)
(* gfparith.c: simple prime-field operations                               *)
(***************************************************************************)
RECURSIVE gfp_setp_loop(_, _)
gfp_setp_loop(st, rp) ==
    IF st.i > 0
    THEN gfp_setp_loop([i |-> st.i - 1, mem |-> wr(st.mem, rp, st.i, ALL1MASK)], rp)
    ELSE st

gfp_setp(mem, rp) ==
    LET m0 == wr(mem, rp, LEN - 1, MSB0MASK)
        m1 == gfp_setp_loop([i |-> LEN - 2, mem |-> m0], rp).mem
    IN  wr(m1, rp, 0, Cast(0 - CONSTC, WordLimbs))

RECURSIVE gfp_cmpp_loop(_, _)
gfp_cmpp_loop(st, x) ==
    IF st.i > 0
    THEN gfp_cmpp_loop(
            [i  |-> st.i - 1,
             lt |-> UOr(UShl(st.lt, 1), BoolWord(ULt(x[st.i + 1], ALL1MASK))),
             gt |-> UShl(st.gt, 1)], x)
    ELSE st

\* Faulty variant of gfp_cmpp: the least significant word is not compared.
gfp_cmpp_nolsw(x) ==
    LET lt0 == BoolWord(ULt(x[LEN], MSB0MASK))
        gt0 == BoolWord(ULt(MSB0MASK, x[LEN]))
        v   == gfp_cmpp_loop([i |-> LEN - 2, lt |-> lt0, gt |-> gt0], x)
    IN  0 + (IF ULt(v.lt, v.gt) THEN 1 ELSE 0) - (IF ULt(v.gt, v.lt) THEN 1 ELSE 0)

gfp_cmpp(x) ==
    LET lt0 == BoolWord(ULt(x[LEN], MSB0MASK))
        gt0 == BoolWord(ULt(MSB0MASK, x[LEN]))
        v   == gfp_cmpp_loop([i |-> LEN - 2, lt |-> lt0, gt |-> gt0], x)
        p0  == Cast(0 - CONSTC, WordLimbs)
        lt  == UOr(UShl(v.lt, 1), BoolWord(ULt(x[1], p0)))
        gt  == UOr(UShl(v.gt, 1), BoolWord(ULt(p0, x[1])))
    IN  0 + (IF ULt(lt, gt) THEN 1 ELSE 0) - (IF ULt(gt, lt) THEN 1 ELSE 0)

(***************************************************************************)
(* gfparith.c: performance-critical prime-field operations                 *)
(***************************************************************************)
RECURSIVE gfp_add_loop(_, _, _, _)
gfp_add_loop(st, rp, ap, bp) ==
    IF st.i < LEN - 1
    THEN LET s == UAdd(st.sum, UAdd(ToDWord(rd(st.mem, ap, st.i)),
                                    ToDWord(rd(st.mem, bp, st.i))))
         IN  gfp_add_loop([i |-> st.i + 1, mem |-> wr(st.mem, rp, st.i, ToWord(s)),
                           sum |-> UShr(s, WSIZE)], rp, ap, bp)
    ELSE st

\* Faulty variant of gfp_add: the most significant word keeps its top bit
\* (the "& MSB0MASK" is missing).
gfp_add_nomask(mem, rp, ap, bp) ==
    LET sum0 == UAdd(ToDWord(rd(mem, ap, LEN - 1)), ToDWord(rd(mem, bp, LEN - 1)))
        msw  == ToWord(sum0)
        sum1 == UMul(Cast(CONSTC, DWordLimbs),
                     ToDWord(ToWord(UShr(sum0, WSIZE - 1))), DWordLimbs)
        lp   == gfp_add_loop([i |-> 0, mem |-> mem, sum |-> sum1], rp, ap, bp)
    IN  wr(lp.mem, rp, LEN - 1, UAdd(msw, ToWord(lp.sum)))

\* Faulty variant of gfp_add: the bit above 2^255 is folded in with weight 1
\* instead of CONSTC.
gfp_add_noc(mem, rp, ap, bp) ==
    LET sum0 == UAdd(ToDWord(rd(mem, ap, LEN - 1)), ToDWord(rd(mem, bp, LEN - 1)))
        msw  == UAnd(ToWord(sum0), MSB0MASK)
        sum1 == ToDWord(ToWord(UShr(sum0, WSIZE - 1)))
        lp   == gfp_add_loop([i |-> 0, mem |-> mem, sum |-> sum1], rp, ap, bp)
    IN  wr(lp.mem, rp, LEN - 1, UAdd(msw, ToWord(lp.sum)))

gfp_add(mem, rp, ap, bp) ==
    LET sum0 == UAdd(ToDWord(rd(mem, ap, LEN - 1)), ToDWord(rd(mem, bp, LEN - 1)))
        msw  == UAnd(ToWord(sum0), MSB0MASK)
        sum1 == UMul(Cast(CONSTC, DWordLimbs),
                     ToDWord(ToWord(UShr(sum0, WSIZE - 1))), DWordLimbs)
        lp   == gfp_add_loop([i |-> 0, mem |-> mem, sum |-> sum1], rp, ap, bp)
    IN  wr(lp.mem, rp, LEN - 1, UAdd(msw, ToWord(lp.sum)))

RECURSIVE gfp_sub_loop(_, _, _, _)
gfp_sub_loop(st, rp, ap, bp) ==
    IF st.i < LEN - 1
    THEN LET s == UAdd(st.sum, USub(ToDWord(rd(st.mem, ap, st.i)),
                                    ToDWord(rd(st.mem, bp, st.i))))
         IN  gfp_sub_loop([i |-> st.i + 1, mem |-> wr(st.mem, rp, st.i, ToWord(s)),
                           sum |-> SShr(s, WSIZE)], rp, ap, bp)
    ELSE st

\* Faulty variant of gfp_sub: the "- 4*CONSTC" of the four-fold prime's least
\* significant word is missing.
gfp_sub_nofix(mem, rp, ap, bp) ==
    LET sum0 == USub(UAdd(FOURXPHI, ToDWord(rd(mem, ap, LEN - 1))),
                     ToDWord(rd(mem, bp, LEN - 1)))
        msw  == UAnd(ToWord(sum0), MSB0MASK)
        sum1 == UMul(Cast(CONSTC, DWordLimbs),
                     ToDWord(ToWord(SShr(sum0, WSIZE - 1))), DWordLimbs)
        lp   == gfp_sub_loop([i |-> 0, mem |-> mem, sum |-> sum1], rp, ap, bp)
    IN  wr(lp.mem, rp, LEN - 1,
           UAdd(UAdd(msw, ToWord(lp.sum)), Cast(4, WordLimbs)))

gfp_sub(mem, rp, ap, bp) ==
    LET sum0 == USub(UAdd(FOURXPHI, ToDWord(rd(mem, ap, LEN - 1))),
                     ToDWord(rd(mem, bp, LEN - 1)))
        msw  == UAnd(ToWord(sum0), MSB0MASK)
        sum1 == UMul(Cast(CONSTC, DWordLimbs),
                     ToDWord(ToWord(SShr(sum0, WSIZE - 1))), DWordLimbs)
        sum2 == USub(sum1, Cast(CONSTC * 4, DWordLimbs))
        lp   == gfp_sub_loop([i |-> 0, mem |-> mem, sum |-> sum2], rp, ap, bp)
    IN  wr(lp.mem, rp, LEN - 1,
           UAdd(UAdd(msw, ToWord(lp.sum)), Cast(4, WordLimbs)))

RECURSIVE gfp_cneg_loop(_, _, _, _)
gfp_cneg_loop(st, rp, ap, mask) ==
    IF st.i < LEN - 1
    THEN LET s == UAdd(st.sum, ToDWord(UXor(mask, rd(st.mem, ap, st.i))))
         IN  gfp_cneg_loop([i |-> st.i + 1, mem |-> wr(st.mem, rp, st.i, ToWord(s)),
                            sum |-> SShr(s, WSIZE)], rp, ap, mask)
    ELSE st

\* Faulty variant of gfp_cneg: the mask is taken from "neg != 0" instead of
\* the least significant bit of neg.
gfp_cneg_nonzero(mem, rp, ap, neg) ==
    LET mask == USub(Zero(WordLimbs), BoolWord(neg # 0))
        sum0 == UAdd(ToDWord(MIN4MASK), ToDWord(UXor(mask, rd(mem, ap, LEN - 1))))
        msw  == UAnd(ToWord(sum0), MSB0MASK)
        sum1 == UMul(Cast(CONSTC, DWordLimbs),
                     ToDWord(ToWord(SShr(sum0, WSIZE - 1))), DWordLimbs)
        sum2 == USub(USub(sum1, Cast(CONSTC * 2, DWordLimbs)),
                     ToDWord(UAnd(mask, Cast(CONSTC * 2 - 1, WordLimbs))))
        lp   == gfp_cneg_loop([i |-> 0, mem |-> mem, sum |-> sum2], rp, ap, mask)
    IN  wr(lp.mem, rp, LEN - 1,
           UAdd(UAdd(msw, ToWord(lp.sum)), Cast(4, WordLimbs)))

\* Faulty variant of gfp_cneg: the "- (CONSTC << 1)" that completes the bias
\* of the least significant word is missing.
gfp_cneg_nofix(mem, rp, ap, neg) ==
    LET mask == USub(Zero(WordLimbs), Cast(neg % 2, WordLimbs))
        sum0 == UAdd(ToDWord(MIN4MASK), ToDWord(UXor(mask, rd(mem, ap, LEN - 1))))
        msw  == UAnd(ToWord(sum0), MSB0MASK)
        sum1 == UMul(Cast(CONSTC, DWordLimbs),
                     ToDWord(ToWord(SShr(sum0, WSIZE - 1))), DWordLimbs)
        sum2 == USub(sum1, ToDWord(UAnd(mask, Cast(CONSTC * 2 - 1, WordLimbs))))
        lp   == gfp_cneg_loop([i |-> 0, mem |-> mem, sum |-> sum2], rp, ap, mask)
    IN  wr(lp.mem, rp, LEN - 1,
           UAdd(UAdd(msw, ToWord(lp.sum)), Cast(4, WordLimbs)))

gfp_cneg(mem, rp, ap, neg) ==
    LET mask == USub(Zero(WordLimbs), Cast(neg % 2, WordLimbs))
        sum0 == UAdd(ToDWord(MIN4MASK), ToDWord(UXor(mask, rd(mem, ap, LEN - 1))))
        msw  == UAnd(ToWord(sum0), MSB0MASK)
        sum1 == UMul(Cast(CONSTC, DWordLimbs),
                     ToDWord(ToWord(SShr(sum0, WSIZE - 1))), DWordLimbs)
        sum2 == USub(USub(sum1, Cast(CONSTC * 2, DWordLimbs)),
                     ToDWord(UAnd(mask, Cast(CONSTC * 2 - 1, WordLimbs))))
        lp   == gfp_cneg_loop([i |-> 0, mem |-> mem, sum |-> sum2], rp, ap, mask)
    IN  wr(lp.mem, rp, LEN - 1,
           UAdd(UAdd(msw, ToWord(lp.sum)), Cast(4, WordLimbs)))

(***************************************************************************)
(* The alternative implementations of gfp_sub and gfp_cneg with an         *)
(* unsigned sum, which is never shifted as a signed value.                 *)
(***************************************************************************)
RECURSIVE gfp_sub_v2_loop(_, _, _, _)
gfp_sub_v2_loop(st, rp, ap, bp) ==
    IF st.i < LEN - 1
    THEN LET s == UAdd(st.sum, USub(UAdd(FOURXPMI, ToDWord(rd(st.mem, ap, st.i))),
                                    ToDWord(rd(st.mem, bp, st.i))))
         IN  gfp_sub_v2_loop([i |-> st.i + 1, mem |-> wr(st.mem, rp, st.i, ToWord(s)),
                              sum |-> UShr(s, WSIZE)], rp, ap, bp)
    ELSE st

\* Faulty variant of gfp_sub_v2: the least significant word is biased like
\* the middle words, by FOURXPMI instead of FOURXPLO.
gfp_sub_v2_mibias(mem, rp, ap, bp) ==
    LET sum0 == USub(UAdd(FOURXPHI, ToDWord(rd(mem, ap, LEN - 1))),
                     ToDWord(rd(mem, bp, LEN - 1)))
        msw  == UAnd(ToWord(sum0), MSB0MASK)
        sum1 == UMul(Cast(CONSTC, DWordLimbs),
                     ToDWord(ToWord(UShr(sum0, WSIZE - 1))), DWordLimbs)
        sum2 == UAdd(sum1, USub(UAdd(FOURXPMI, ToDWord(rd(mem, ap, 0))),
                                ToDWord(rd(mem, bp, 0))))
        lp   == gfp_sub_v2_loop([i |-> 1, mem |-> wr(mem, rp, 0, ToWord(sum2)),
                                 sum |-> UShr(sum2, WSIZE)], rp, ap, bp)
    IN  wr(lp.mem, rp, LEN - 1, UAdd(msw, ToWord(lp.sum)))

gfp_sub_v2(mem, rp, ap, bp) ==
    LET sum0 == USub(UAdd(FOURXPHI, ToDWord(rd(mem, ap, LEN - 1))),
                     ToDWord(rd(mem, bp, LEN - 1)))
        msw  == UAnd(ToWord(sum0), MSB0MASK)
        sum1 == UMul(Cast(CONSTC, DWordLimbs),
                     ToDWord(ToWord(UShr(sum0, WSIZE - 1))), DWordLimbs)
        sum2 == UAdd(sum1, USub(UAdd(FOURXPLO, ToDWord(rd(mem, ap, 0))),
                                ToDWord(rd(mem, bp, 0))))
        lp   == gfp_sub_v2_loop([i |-> 1, mem |-> wr(mem, rp, 0, ToWord(sum2)),
                                 sum |-> UShr(sum2, WSIZE)], rp, ap, bp)
    IN  wr(lp.mem, rp, LEN - 1, UAdd(msw, ToWord(lp.sum)))

RECURSIVE gfp_cneg_v2_loop(_, _, _, _)
gfp_cneg_v2_loop(st, rp, ap, mask) ==
    IF st.i < LEN - 1
    THEN LET s == UAdd(st.sum, UAdd(UShr(FOURXPMI, 1),
                                    ToDWord(UXor(mask, rd(st.mem, ap, st.i)))))
         IN  gfp_cneg_v2_loop([i |-> st.i + 1, mem |-> wr(st.mem, rp, st.i, ToWord(s)),
                               sum |-> UShr(s, WSIZE)], rp, ap, mask)
    ELSE st

\* Faulty variant of gfp_cneg_v2: the conditional subtraction of 2c - 1 is
\* missing.
gfp_cneg_v2_nofix(mem, rp, ap, neg) ==
    LET mask == USub(Zero(WordLimbs), Cast(neg % 2, WordLimbs))
        sum0 == UAdd(UShr(FOURXPHI, 1), ToDWord(UXor(mask, rd(mem, ap, LEN - 1))))
        msw  == UAnd(ToWord(sum0), MSB0MASK)
        sum1 == UMul(Cast(CONSTC, DWordLimbs),
                     ToDWord(ToWord(UShr(sum0, WSIZE - 1))), DWordLimbs)
        sum3 == UAdd(sum1, UAdd(UShr(FOURXPLO, 1), ToDWord(UXor(mask, rd(mem, ap, 0)))))
        lp   == gfp_cneg_v2_loop([i |-> 1, mem |-> wr(mem, rp, 0, ToWord(sum3)),
                                  sum |-> UShr(sum3, WSIZE)], rp, ap, mask)
    IN  wr(lp.mem, rp, LEN - 1, UAdd(msw, ToWord(lp.sum)))

gfp_cneg_v2(mem, rp, ap, neg) ==
    LET mask == USub(Zero(WordLimbs), Cast(neg % 2, WordLimbs))
        sum0 == UAdd(UShr(FOURXPHI, 1), ToDWord(UXor(mask, rd(mem, ap, LEN - 1))))
        msw  == UAnd(ToWord(sum0), MSB0MASK)
        sum1 == UMul(Cast(CONSTC, DWordLimbs),
                     ToDWord(ToWord(UShr(sum0, WSIZE - 1))), DWordLimbs)
        sum2 == USub(sum1, ToDWord(UAnd(mask, Cast(CONSTC * 2 - 1, WordLimbs))))
        sum3 == UAdd(sum2, UAdd(UShr(FOURXPLO, 1), ToDWord(UXor(mask, rd(mem, ap, 0)))))
        lp   == gfp_cneg_v2_loop([i |-> 1, mem |-> wr(mem, rp, 0, ToWord(sum3)),
                                  sum |-> UShr(sum3, WSIZE)], rp, ap, mask)
    IN  wr(lp.mem, rp, LEN - 1, UAdd(msw, ToWord(lp.sum)))

RECURSIVE gfp_hlv_loop(_, _, _)
gfp_hlv_loop(st, rp, ap) ==
    IF st.i < LEN - 1
    THEN LET s == UAdd(st.sum, ToDWord(rd(st.mem, ap, st.i)))
         IN  gfp_hlv_loop(
                [i   |-> st.i + 1,
                 mem |-> wr(st.mem, rp, st.i - 1,
                            UOr(UShl(ToWord(s), WSIZE - 1), UShr(st.tmp, 1))),
                 tmp |-> ToWord(s),
                 sum |-> SShr(s, WSIZE)], rp, ap)
    ELSE st

\* Faulty variant of gfp_hlv: a plain right shift, the prime is never added.
gfp_hlv_shift(mem, rp, ap) ==
    LET sum0 == ToDWord(rd(mem, ap, 0))
        lp   == gfp_hlv_loop([i |-> 1, mem |-> mem, tmp |-> ToWord(sum0),
                              sum |-> SShr(sum0, WSIZE)], rp, ap)
        sum1 == UAdd(lp.sum, ToDWord(rd(lp.mem, ap, LEN - 1)))
        m1   == wr(lp.mem, rp, LEN - 2,
                   UOr(UShl(ToWord(sum1), WSIZE - 1), UShr(lp.tmp, 1)))
    IN  wr(m1, rp, LEN - 1, ToWord(SShr(sum1, 1)))

gfp_hlv(mem, rp, ap) ==
    LET mask == USub(Zero(WordLimbs), UAnd(rd(mem, ap, 0), Cast(1, WordLimbs)))
        sum0 == USub(ToDWord(rd(mem, ap, 0)),
                     ToDWord(UAnd(Cast(CONSTC, WordLimbs), mask)))
        lp   == gfp_hlv_loop([i |-> 1, mem |-> mem, tmp |-> ToWord(sum0),
                              sum |-> SShr(sum0, WSIZE)], rp, ap)
        sum1 == UAdd(lp.sum, UAdd(ToDWord(rd(lp.mem, ap, LEN - 1)),
                                  ToDWord(UAnd(MSB1MASK, mask))))
        m1   == wr(lp.mem, rp, LEN - 2,
                   UOr(UShl(ToWord(sum1), WSIZE - 1), UShr(lp.tmp, 1)))
    IN  wr(m1, rp, LEN - 1, ToWord(SShr(sum1, 1)))

\* A local Word array t[n], of unspecified content until it is written.
Local(n) == Tup([i \in 1..n |-> Zero(WordLimbs)])
\* t[i] and t[i] = w for a local array (C index).
at(t, i) == t[i + 1]
put(t, i, w) == [t EXCEPT ![i + 1] = w]

\* for (j ...; j < LEN; j++) { prod += (DWord) a[j]*w; (prod += t[k+j];)
\*   t[k+j] = (Word) prod; prod >>= WSIZE; }  t[k+j] = (Word) prod;
\* as in the product loops of gfp_mul, gfp_sqr and gfp_mul32; acc says
\* whether the old t[k+j] is added.
RECURSIVE gfp_mul_row_loop(_, _, _, _, _, _)
gfp_mul_row_loop(st, mem, ap, w, k, acc) ==
    IF st.j < LEN
    THEN LET p1 == UAdd(st.prod, UMul(rd(mem, ap, st.j), w, DWordLimbs))
             p2 == IF acc THEN UAdd(p1, ToDWord(at(st.t, k + st.j))) ELSE p1
         IN  gfp_mul_row_loop([j |-> st.j + 1, t |-> put(st.t, k + st.j, ToWord(p2)),
                               prod |-> UShr(p2, WSIZE)], mem, ap, w, k, acc)
    ELSE st

\* t[k+j] = (Word) prod; after the loop, whose state at exit is st.
gfp_mul_row_end(st, k) == put(st.t, k + st.j, ToWord(st.prod))

gfp_mul_row(st, mem, ap, w, k, acc) ==
    gfp_mul_row_end(gfp_mul_row_loop(st, mem, ap, w, k, acc), k)

RECURSIVE gfp_mul_rows(_, _, _, _)
gfp_mul_rows(st, mem, ap, bp) ==
    IF st.i < LEN
    THEN gfp_mul_rows(
            [i |-> st.i + 1,
             t |-> gfp_mul_row([j |-> 0, t |-> st.t, prod |-> Zero(DWordLimbs)],
                               mem, ap, rd(mem, bp, st.i), st.i, TRUE)],
            mem, ap, bp)
    ELSE st

\* First step of the modular reduction: t[i] += t[i+LEN]*2c with carry.
RECURSIVE gfp_red1_loop(_)
gfp_red1_loop(st) ==
    IF st.i < LEN - 1
    THEN LET p1 == UAdd(st.prod,
                     UAdd(UMul(ToDWord(at(st.t, st.i + LEN)),
                               Cast(CONSTC * 2, DWordLimbs), DWordLimbs),
                          ToDWord(at(st.t, st.i))))
         IN  gfp_red1_loop([i |-> st.i + 1, t |-> put(st.t, st.i, ToWord(p1)),
                            prod |-> UShr(p1, WSIZE)])
    ELSE st

\* Second step of the modular reduction: r[i] = t[i] + carry.
RECURSIVE gfp_red2_loop(_, _, _)
gfp_red2_loop(st, rp, t) ==
    IF st.i < LEN - 1
    THEN LET p1 == UAdd(st.prod, ToDWord(at(t, st.i)))
         IN  gfp_red2_loop([i |-> st.i + 1, mem |-> wr(st.mem, rp, st.i, ToWord(p1)),
                            prod |-> UShr(p1, WSIZE)], rp, t)
    ELSE st

\* Both reduction steps of gfp_mul and gfp_sqr on the 2*LEN-word product t.
\* Faulty variant of gfp_reduce: the bits above 2^255 are folded in with
\* weight 1 instead of CONSTC.
gfp_reduce_noc(mem, rp, t) ==
    LET s1   == gfp_red1_loop([i |-> 0, t |-> t, prod |-> Zero(DWordLimbs)])
        prod == UAdd(s1.prod,
                     UAdd(UMul(ToDWord(at(s1.t, 2 * LEN - 1)),
                               Cast(CONSTC * 2, DWordLimbs), DWordLimbs),
                          ToDWord(at(s1.t, LEN - 1))))
        msw  == UAnd(ToWord(prod), MSB0MASK)
        p2   == UShr(prod, WSIZE - 1)
        s2   == gfp_red2_loop([i |-> 0, mem |-> mem, prod |-> p2], rp, s1.t)
    IN  wr(s2.mem, rp, LEN - 1, UAdd(msw, ToWord(s2.prod)))

\* prod += (DWord) t[2*LEN-1]*(CONSTC << 1) + t[LEN-1]; after the first loop,
\* whose state at exit is st.
gfp_red1(st) ==
    [t    |-> st.t,
     prod |-> UAdd(st.prod,
                   UAdd(UMul(ToDWord(at(st.t, 2 * LEN - 1)),
                             Cast(CONSTC * 2, DWordLimbs), DWordLimbs),
                        ToDWord(at(st.t, LEN - 1))))]

\* r[LEN-1] = msw + ((Word) prod); after the second loop, whose state at exit
\* is st.
gfp_red2_end(st, rp, msw) == wr(st.mem, rp, LEN - 1, UAdd(msw, ToWord(st.prod)))

\* The second step on the state st left by the first: msw, the product of
\* CONSTC and the bits above 2^255, the loop and the last word.
gfp_red2(mem, rp, st) ==
    gfp_red2_end(
        gfp_red2_loop([i |-> 0, mem |-> mem,
                       prod |-> UMul(Cast(CONSTC, DWordLimbs),
                                     UShr(st.prod, WSIZE - 1), DWordLimbs)],
                      rp, st.t),
        rp, UAnd(ToWord(st.prod), MSB0MASK))

gfp_reduce(mem, rp, t) ==
    gfp_red2(mem, rp,
             gfp_red1(gfp_red1_loop([i |-> 0, t |-> t, prod |-> Zero(DWordLimbs)])))

gfp_mul(mem, rp, ap, bp) ==
    LET t0 == gfp_mul_row([j |-> 0, t |-> Local(2 * LEN), prod |-> Zero(DWordLimbs)],
                          mem, ap, rd(mem, bp, 0), 0, FALSE)
        t1 == gfp_mul_rows([i |-> 1, t |-> t0], mem, ap, bp).t
    IN  gfp_reduce(mem, rp, t1)

RECURSIVE gfp_sqr_rows(_, _, _)
gfp_sqr_rows(st, mem, ap) ==
    IF st.i < LEN
    THEN gfp_sqr_rows(
            [i |-> st.i + 1,
             t |-> gfp_mul_row([j |-> st.i + 1, t |-> st.t,
                                prod |-> Zero(DWordLimbs)],
                               mem, ap, rd(mem, ap, st.i), st.i, TRUE)],
            mem, ap)
    ELSE st

\* Double the off-diagonal sum and add the squares a[i]^2.
RECURSIVE gfp_sqr_dbl(_, _, _)
gfp_sqr_dbl(st, mem, ap) ==
    IF st.i < LEN
    THEN LET prod == UMul(rd(mem, ap, st.i), rd(mem, ap, st.i), DWordLimbs)
             s1 == UAdd(UAdd(st.sum, ToDWord(ToWord(prod))),
                        UAdd(ToDWord(at(st.t, 2 * st.i)),
                             ToDWord(at(st.t, 2 * st.i))))
             ta == put(st.t, 2 * st.i, ToWord(s1))
             s2 == UAdd(UAdd(UShr(s1, WSIZE), ToDWord(ToWord(UShr(prod, WSIZE)))),
                        UAdd(ToDWord(at(ta, 2 * st.i + 1)),
                             ToDWord(at(ta, 2 * st.i + 1))))
         IN  gfp_sqr_dbl([i |-> st.i + 1, t |-> put(ta, 2 * st.i + 1, ToWord(s2)),
                          sum |-> UShr(s2, WSIZE)], mem, ap)
    ELSE st

\* Faulty variant of gfp_sqr: the sum of the products a[i]*a[j], i < j, is
\* not doubled and the squares a[i]^2 are not added.
gfp_sqr_nodbl(mem, rp, ap) ==
    LET t0 == gfp_mul_row([j |-> 1, t |-> put(Local(2 * LEN), 0, Zero(WordLimbs)),
                           prod |-> Zero(DWordLimbs)],
                          mem, ap, rd(mem, ap, 0), 0, FALSE)
        t1 == gfp_sqr_rows([i |-> 1, t |-> t0], mem, ap).t
    IN  gfp_reduce(mem, rp, t1)

gfp_sqr(mem, rp, ap) ==
    LET t0 == gfp_mul_row([j |-> 1, t |-> put(Local(2 * LEN), 0, Zero(WordLimbs)),
                           prod |-> Zero(DWordLimbs)],
                          mem, ap, rd(mem, ap, 0), 0, FALSE)
        t1 == gfp_sqr_rows([i |-> 1, t |-> t0], mem, ap).t
        t2 == gfp_sqr_dbl([i |-> 0, t |-> t1, sum |-> Zero(DWordLimbs)], mem, ap).t
    IN  gfp_reduce(mem, rp, t2)

RECURSIVE gfp_mul32_loop(_, _, _)
gfp_mul32_loop(st, rp, t) ==
    IF st.i < LEN - 1
    THEN LET p1 == UAdd(st.prod, ToDWord(at(t, st.i)))
         IN  gfp_mul32_loop([i |-> st.i + 1, mem |-> wr(st.mem, rp, st.i, ToWord(p1)),
                             prod |-> UShr(p1, WSIZE)], rp, t)
    ELSE st

\* Faulty variant of gfp_mul32: the word above 2^256 is folded in with weight
\* CONSTC instead of 2*CONSTC.
gfp_mul32_c(mem, rp, ap, bp) ==
    LET t   == gfp_mul_row([j |-> 0, t |-> Local(LEN + 1), prod |-> Zero(DWordLimbs)],
                           mem, ap, rd(mem, bp, 0), 0, FALSE)
        msw == UAnd(at(t, LEN - 1), MSB0MASK)
        p0  == UMul(Cast(CONSTC, DWordLimbs),
                    ToDWord(UShr(at(t, LEN - 1), WSIZE - 1)), DWordLimbs)
        p1  == UAdd(p0, UAdd(UMul(ToDWord(at(t, LEN)), Cast(CONSTC, DWordLimbs),
                                  DWordLimbs),
                             ToDWord(at(t, 0))))
        lp  == gfp_mul32_loop([i |-> 1, mem |-> wr(mem, rp, 0, ToWord(p1)),
                               prod |-> UShr(p1, WSIZE)], rp, t)
    IN  wr(lp.mem, rp, LEN - 1, UAdd(ToWord(lp.prod), msw))

\* The reduction of gfp_mul32 on the (LEN+1)-word product t.
gfp_mul32_red(mem, rp, t) ==
    LET msw == UAnd(at(t, LEN - 1), MSB0MASK)
        p0  == UMul(Cast(CONSTC, DWordLimbs),
                    ToDWord(UShr(at(t, LEN - 1), WSIZE - 1)), DWordLimbs)
        p1  == UAdd(p0, UAdd(UMul(ToDWord(at(t, LEN)), Cast(CONSTC * 2, DWordLimbs),
                                  DWordLimbs),
                             ToDWord(at(t, 0))))
        lp  == gfp_mul32_loop([i |-> 1, mem |-> wr(mem, rp, 0, ToWord(p1)),
                               prod |-> UShr(p1, WSIZE)], rp, t)
    IN  wr(lp.mem, rp, LEN - 1, UAdd(ToWord(lp.prod), msw))

gfp_mul32(mem, rp, ap, bp) ==
    gfp_mul32_red(mem, rp,
                  gfp_mul_row([j |-> 0, t |-> Local(LEN + 1), prod |-> Zero(DWordLimbs)],
                              mem, ap, rd(mem, bp, 0), 0, FALSE))

(***************************************************************************)
(* gfparith.c: composite prime-field operations                            *)
(***************************************************************************)
\* rbit = mpi_sub(r, a, p, LEN); mpi_cadd(r, r, p, rbit, LEN);
\* mpi_cadd(r, r, p, rbit, LEN); on the memory and the rbit that mpi_sub has
\* left in s.
gfp_fred_cadd(s, rp, pp) == mpi_cadd(s.mem, rp, rp, pp, s.ret, LEN).mem

gfp_fred_round(mem, rp, ap, pp) ==
    gfp_fred_cadd(mpi_sub(mem, rp, ap, pp, LEN), rp, pp)

\* Faulty variant of gfp_fred: one round of subtraction instead of two.
gfp_fred_once(mem, rp, ap) ==
    LET m0 == gfp_setp(Alloc(mem, "p", LEN), "p")
        m1 == gfp_fred_round(m0, rp, ap, "p")
    IN  Free(m1, {"p"})

gfp_fred(mem, rp, ap) ==
    LET m0 == gfp_setp(Alloc(mem, "p", LEN), "p")
        m1 == gfp_fred_round(m0, rp, ap, "p")
        m2 == gfp_fred_round(m1, rp, rp, "p")
    IN  Free(m2, {"p"})

\* return mpi_cmp(ar, br, LEN); on the reduced operands.
gfp_cmp_red(mem, ap, bp) == mpi_cmp(mem[ap], mem[bp], LEN)

\* Faulty variant of gfp_cmp: each operand is reduced by one round of
\* subtraction instead of two.
gfp_cmp_once(mem, ap, bp) ==
    LET m0 == gfp_setp(Alloc(Alloc(Alloc(mem, "p", LEN), "ar", LEN), "br", LEN), "p")
        m1 == gfp_fred_round(m0, "ar", ap, "p")
        m3 == gfp_fred_round(m1, "br", bp, "p")
    IN  mpi_cmp(m3["ar"], m3["br"], LEN)

gfp_cmp(mem, ap, bp) ==
    LET m0 == gfp_setp(Alloc(Alloc(Alloc(mem, "p", LEN), "ar", LEN), "br", LEN), "p")
        m1 == gfp_fred_round(m0, "ar", ap, "p")
        m2 == gfp_fred_round(m1, "ar", "ar", "p")
        m3 == gfp_fred_round(m2, "br", bp, "p")
        m4 == gfp_fred_round(m3, "br", "br", "p")
    IN  gfp_cmp_red(m4, "ar", "br")

(***************************************************************************)
(* Mathematical reference: natural numbers as little-endian limb tuples of *)
(* any length, with exact (never wrapping) arithmetic.                     *)
(***************************************************************************)
\* The natural number held by a Word array.
NatOf(arr) ==
    Tup([i \in 1..(WordLimbs * Len(arr)) |-> arr[(i + 1) \div 2][2 - (i % 2)]])
\* The n-Word array holding a natural number below 2^(WSIZE*n).
WordsOf(x, n) == Tup([i \in 1..n |-> <<Limb(x, 2 * i - 1), Limb(x, 2 * i)>>])

NatMax(m, n) == IF m >= n THEN m ELSE n
NatEq(x, y) ==
    LET n == NatMax(Len(x), Len(y)) IN Resize(x, n) = Resize(y, n)
NatLt(x, y) ==
    LET n == NatMax(Len(x), Len(y)) IN ULt(Resize(x, n), Resize(y, n))
NatLe(x, y) == ~NatLt(y, x)
NatAdd(x, y) ==
    LET n == NatMax(Len(x), Len(y)) + 1 IN UAdd(Resize(x, n), Resize(y, n))
\* x - y for x >= y.
NatSub(x, y) ==
    LET n == NatMax(Len(x), Len(y)) IN USub(Resize(x, n), Resize(y, n))
NatMul(x, y) == UMul(x, y, Len(x) + Len(y))
NatInt(v) == FromInt(v, WordLimbs)
NatIsEven(x) == x[1] % 2 = 0
NatHalf(x) == UShr(x, 1)

\* v mod m for v < m * 2^(j+1), by restoring division.
RECURSIVE NatModBits(_, _, _)
NatModBits(v, tbl, j) ==
    IF j < 0 THEN v
    ELSE IF ULt(v, tbl[j + 1]) THEN NatModBits(v, tbl, j - 1)
    ELSE NatModBits(USub(v, tbl[j + 1]), tbl, j - 1)

RECURSIVE NatModLimbs(_, _, _, _)
NatModLimbs(st, x, tbl, n) ==
    IF st.i = 0 THEN st.rem
    ELSE NatModLimbs(
            [i   |-> st.i - 1,
             rem |-> NatModBits(Resize(<<x[st.i]>> \o st.rem, n), tbl, LimbBits - 1)],
            x, tbl, n)

\* x mod m, by long division; the result has Len(m) limbs.
NatMod(x, m) ==
    LET n   == Len(m) + 1
        tbl == Tup([j \in 1..LimbBits |-> UShl(Resize(m, n), j - 1)])
    IN  Resize(NatModLimbs([i |-> Len(x), rem |-> Zero(n)], x, tbl, n), Len(m))

\* The prime p = 2^255 - 19.
PNat ==
    Tup([i \in 1..(WordLimbs * LEN) |->
            IF i = 1 THEN Base - CONSTC
            ELSE IF i = WordLimbs * LEN THEN (Base \div 2) - 1 ELSE Base - 1])
TwoPNat == NatAdd(PNat, PNat)

\* x mod p.  With x = hi * 2^CONSTK + lo and 2^CONSTK = p + CONSTC, x is
\* congruent to CONSTC * hi + lo, which is smaller than x when hi > 0.
RECURSIVE ModP(_)
ModP(x) ==
    LET n  == WordLimbs * LEN
        lo == Tup([i \in 1..n |-> IF i = n THEN Limb(x, i) % (Base \div 2) ELSE Limb(x, i)])
        hi == Resize(UShr(x, CONSTK), NatMax(Len(x) - (n - 1), 1))
    IN  IF hi = Zero(Len(hi))
        THEN IF ULt(lo, PNat) THEN lo ELSE USub(lo, PNat)
        ELSE ModP(NatAdd(NatMul(NatInt(CONSTC), hi), lo))

FourPNat == NatAdd(TwoPNat, TwoPNat)

(***************************************************************************)
(* gfparith.c: gfp_inv, one step of the Extended Euclidean Algorithm at a  *)
(* time.  The three elements of tmp are the buffers "ux", "vx" and "x1";   *)
(* x2 is the result buffer r.                                              *)
(***************************************************************************)
InvLocals == {"ux", "vx", "x1"}

\* Faulty variant of inv_init: x2, which is the result buffer r, is not set
\* to 0.
inv_init_keepr(mem, rp, ap) ==
    LET m0 == Alloc(Alloc(Alloc(mem, "ux", LEN), "vx", LEN), "x1", LEN)
        m1 == mpi_copy(m0, "ux", ap, LEN)
        m2 == gfp_setp(m1, "vx")
    IN  mpi_setw(m2, "x1", Cast(1, WordLimbs), LEN)

\* Faulty variant of inv_init: x2, which is the result buffer r, is set to 0
\* before the operand a is copied to ux.
inv_init_clearfirst(mem, rp, ap) ==
    LET m0 == Alloc(Alloc(Alloc(mem, "ux", LEN), "vx", LEN), "x1", LEN)
        m1 == mpi_setw(m0, rp, Zero(WordLimbs), LEN)
        m2 == mpi_copy(m1, "ux", ap, LEN)
        m3 == gfp_setp(m2, "vx")
    IN  mpi_setw(m3, "x1", Cast(1, WordLimbs), LEN)

\* mpi_copy(ux, a, LEN); gfp_setp(vx); mpi_setw(x1, 1, LEN); mpi_setw(x2, 0, LEN);
inv_init(mem, rp, ap) ==
    LET m0 == Alloc(Alloc(Alloc(mem, "ux", LEN), "vx", LEN), "x1", LEN)
        m1 == mpi_copy(m0, "ux", ap, LEN)
        m2 == gfp_setp(m1, "vx")
        m3 == mpi_setw(m2, "x1", Cast(1, WordLimbs), LEN)
    IN  mpi_setw(m3, rp, Zero(WordLimbs), LEN)

\* mpi_cmpw(ux, 1, uvlen) && mpi_cmpw(vx, 1, uvlen)
inv_continue(mem, len) ==
    /\ mpi_cmpw(mem["ux"], Cast(1, WordLimbs), len) # 0
    /\ mpi_cmpw(mem["vx"], Cast(1, WordLimbs), len) # 0

\* (x[0] & 1) == 0
inv_even(mem, xp) == UAnd(rd(mem, xp, 0), Cast(1, WordLimbs)) = Zero(WordLimbs)

\* Faulty variant of inv_halve: nothing is halved.
inv_halve_skip(mem, up, xp, len) == mem

\* Faulty variant of inv_halve: ux is halved and its companion x1 is not.
inv_halve_nohlv(mem, up, xp, len) == mpi_shr(mem, up, up, len).mem

\* mpi_shr(ux, ux, uvlen); gfp_hlv(x1, x1);
inv_halve(mem, up, xp, len) == gfp_hlv(mpi_shr(mem, up, up, len).mem, xp, xp)

\* Faulty variant of inv_subtract: the companions are subtracted the wrong
\* way round.
inv_subtract_swapped(mem, up, vp, x1p, x2p, len) ==
    gfp_sub(mpi_sub(mem, up, up, vp, len).mem, x1p, x2p, x1p)

\* mpi_sub(ux, ux, vx, uvlen); gfp_sub(x1, x1, x2);
inv_subtract(mem, up, vp, x1p, x2p, len) ==
    gfp_sub(mpi_sub(mem, up, up, vp, len).mem, x1p, x1p, x2p)

\* Faulty variant of inv_uvlen: uvlen shrinks as soon as one of the top words
\* is 0.
inv_uvlen_early(mem, len) ==
    IF rd(mem, "ux", len - 1) = Zero(WordLimbs) \/ rd(mem, "vx", len - 1) = Zero(WordLimbs)
    THEN len - 1 ELSE len

\* Faulty variant of inv_uvlen: only the top word of ux is tested.
inv_uvlen_uxonly(mem, len) ==
    IF rd(mem, "ux", len - 1) = Zero(WordLimbs) THEN len - 1 ELSE len

\* Faulty variant of inv_uvlen: the length is counted up instead of down.
inv_uvlen_up(mem, len) ==
    IF rd(mem, "ux", len - 1) = Zero(WordLimbs) /\ rd(mem, "vx", len - 1) = Zero(WordLimbs)
    THEN len + 1 ELSE len

\* if ((ux[uvlen-1] == 0) && (vx[uvlen-1] == 0)) uvlen--;
inv_uvlen(mem, len) ==
    IF rd(mem, "ux", len - 1) = Zero(WordLimbs) /\ rd(mem, "vx", len - 1) = Zero(WordLimbs)
    THEN len - 1 ELSE len

\* if (mpi_cmpw(ux, 1, LEN) == 0) mpi_copy(r, x1, LEN);
inv_result(mem, rp) ==
    IF mpi_cmpw(mem["ux"], Cast(1, WordLimbs), LEN) = 0
    THEN mpi_copy(mem, rp, "x1", LEN) ELSE mem

(***************************************************************************)
(* gfp_inv as a function: the steps above, run from the entry to the       *)
(* return.  s is the state of the call: its memory, uvlen, the position pc *)
(* and the return value.                                                   *)
(***************************************************************************)
inv_step(s, rp) ==
    CASE s.pc = "reduce" ->
            IF mpi_cmp(s.mem["ux"], s.mem["vx"], LEN) >= 0
            THEN [s EXCEPT !.mem = mpi_sub(s.mem, "ux", "ux", "vx", LEN).mem]
            ELSE IF mpi_cmpw(s.mem["ux"], Zero(WordLimbs), LEN) = 0
            THEN [s EXCEPT !.pc = "done", !.ret = M25519_ERR_INVERS]
            ELSE [s EXCEPT !.pc = "loop"]
      [] s.pc = "loop" ->
            IF inv_continue(s.mem, s.uvlen)
            THEN [s EXCEPT !.pc = "ueven"]
            ELSE [s EXCEPT !.mem = inv_result(s.mem, rp), !.pc = "done",
                           !.ret = M25519_NO_ERROR]
      [] s.pc = "ueven" ->
            IF inv_even(s.mem, "ux")
            THEN [s EXCEPT !.mem = inv_halve(s.mem, "ux", "x1", s.uvlen)]
            ELSE [s EXCEPT !.pc = "veven"]
      [] s.pc = "veven" ->
            IF inv_even(s.mem, "vx")
            THEN [s EXCEPT !.mem = inv_halve(s.mem, "vx", rp, s.uvlen)]
            ELSE [s EXCEPT !.pc = "odd"]
      [] s.pc = "odd" ->
            LET m == IF mpi_cmp(s.mem["ux"], s.mem["vx"], s.uvlen) >= 0
                     THEN inv_subtract(s.mem, "ux", "vx", "x1", rp, s.uvlen)
                     ELSE inv_subtract(s.mem, "vx", "ux", rp, "x1", s.uvlen)
            IN  [s EXCEPT !.mem = m, !.uvlen = inv_uvlen(m, s.uvlen), !.pc = "loop"]
      [] OTHER -> s

\* The steps are run in nested rounds of InvChunk, which keeps the nesting of
\* the evaluation small; InvChunk^3 steps exceed the longest run of gfp_inv
\* (at most 2 * 256 halvings and as many subtractions).
InvChunk == 2 * LEN
RECURSIVE inv_run(_, _, _, _)
inv_run(s, rp, n, lvl) ==
    IF n = 0 \/ s.pc = "done" THEN s
    ELSE inv_run(IF lvl = 0 THEN inv_step(s, rp) ELSE inv_run(s, rp, InvChunk, lvl - 1),
                 rp, n - 1, lvl)

gfp_inv(mem, rp, ap) ==
    LET s0 == [mem |-> inv_init(mem, rp, ap), uvlen |-> LEN, pc |-> "reduce", ret |-> 0]
        s1 == inv_run(s0, rp, InvChunk, 2)
    IN  [mem |-> Free(s1.mem, InvLocals), ret |-> s1.ret]

(***************************************************************************)
(* Operands of the calls.                                                  *)
(***************************************************************************)
NumInputs == 14
NumInvInputs == 8
NumScalars == 4
MaxNeg == 2
NumChainInputs == 2
MaxChain == 2
NumAliasInputs == 4
NumMpiInputs == 6
NumMpiWords == 4
MaxMpiLen == 8

\* The field element with the small value v.
Elem(v) == WordsOf(FromInt(v, WordLimbs), LEN)
\* The field element with the value 2^n.
ElemPow2(n) == WordsOf(UShl(Cast(1, WordLimbs * LEN), n), LEN)
MaxElem == Tup([i \in 1..LEN |-> ALL1MASK])
ZeroElem == Elem(0)
OneElem == Elem(1)
PMinus1Elem == WordsOf(NatSub(PNat, NatInt(1)), LEN)
\* A 16-bit limb and a field element of arbitrary content, one per seed s.
RndLimb(s) == (((s * 40503 + 12345) % Base) * 25173 + 13849) % Base
Rnd(s) ==
    Tup([i \in 1..LEN |-> <<RndLimb(31 * s + 2 * i), RndLimb(31 * s + 2 * i + 1)>>])

Sample(i) ==
    CASE i = 1  -> MaxElem
      [] i = 2  -> PMinus1Elem
      [] i = 3  -> Rnd(1)
      [] i = 4  -> ZeroElem
      [] i = 5  -> OneElem
      [] i = 6  -> WordsOf(PNat, LEN)
      [] i = 7  -> Elem(2)
      [] i = 8  -> ElemPow2(CONSTK - 1)
      [] i = 9  -> Elem(9)
      [] i = 10 -> WordsOf(TwoPNat, LEN)
      [] i = 11 -> WordsOf(NatAdd(PNat, NatInt(1)), LEN)
      [] i = 12 -> WordsOf(NatSub(TwoPNat, NatInt(1)), LEN)
      [] i = 13 -> Elem(3)
      [] i = 14 -> ElemPow2(CONSTK)
      [] OTHER  -> Rnd(i)

Inputs == {Sample(i) : i \in 1..NumInputs}
\* The operands of gfp_inv; 2p, the largest multiple of p below 2^256, is
\* always among them.
InvInputs == {Sample(i) : i \in 1..NumInvInputs} \cup {WordsOf(TwoPNat, LEN)}
\* Most significant words that end in 2 or 3, as they are or complemented.
TopWords ==
    {Cast(2, WordLimbs), Cast(3, WordLimbs), UNot(Cast(2, WordLimbs)),
     USub(MSB0MASK, Cast(3, WordLimbs))}
\* The operands of the calls that run both implementations of an operation.
V2Inputs == Inputs \cup {[Rnd(2) EXCEPT ![LEN] = w] : w \in TopWords}

ChainInputs == {Sample(i) : i \in 1..NumChainInputs}
AliasInputs == {Sample(i) : i \in 1..NumAliasInputs}

ScalarSample(i) ==
    CASE i = 1 -> Cast(121666, WordLimbs)
      [] i = 2 -> ALL1MASK
      [] i = 3 -> Cast(0, WordLimbs)
      [] i = 4 -> Cast(1, WordLimbs)
      [] i = 5 -> MSB1MASK
      [] OTHER -> <<RndLimb(2 * i), RndLimb(2 * i + 1)>>

Scalars == {ScalarSample(i) : i \in 1..NumScalars}
NegValues == (0 - MaxNeg)..MaxNeg

\* Multiple-precision integers of n words: 0, 2^(32n) - 1, 1, 2^(32(n-1)),
\* 2^(32(n-1)) + 2^32 - 1 (for n = 1: 2^32 - 1) and words of arbitrary content.
MpiSample(i, n) ==
    Tup([j \in 1..n |->
            CASE i = 1 -> Zero(WordLimbs)
              [] i = 2 -> ALL1MASK
              [] i = 3 -> IF j = 1 THEN Cast(1, WordLimbs) ELSE Zero(WordLimbs)
              [] i = 4 -> IF j = n THEN Cast(1, WordLimbs) ELSE Zero(WordLimbs)
              [] i = 5 -> IF j = 1 THEN ALL1MASK
                          ELSE IF j = n THEN Cast(1, WordLimbs) ELSE Zero(WordLimbs)
              [] OTHER -> <<RndLimb(7 * i + 2 * j), RndLimb(7 * i + 2 * j + 1)>>])
MpiInputs(n) == {MpiSample(i, n) : i \in 1..NumMpiInputs}
\* The single words an integer is compared with: 1, 0, 2^32 - 1, ...
MpiWordSample(i) ==
    CASE i = 1 -> Cast(1, WordLimbs)
      [] i = 2 -> Zero(WordLimbs)
      [] i = 3 -> ALL1MASK
      [] OTHER -> <<RndLimb(2 * i), RndLimb(2 * i + 1)>>
MpiWords == {MpiWordSample(i) : i \in 1..NumMpiWords}
\* The lengths of the integers: mpi_cmp asserts len <= WSIZE.
CmpLens == 1..WSIZE
MpiLens == 1..MaxMpiLen
JunkOf(n) == Tup([i \in 1..n |-> <<48879, 57005>>])

\* The content of a result buffer the caller has not written.
Junk == Tup([i \in 1..LEN |-> <<48879, 57005>>])

(***************************************************************************)
(* The state: the memory of the caller (mem: buffer -> Word array, the     *)
(* pointer arguments of a call being buffer names), a snapshot of it at    *)
(* the last call (pre), the last call and its return value (call), the     *)
(* position of the caller and inside gfp_inv (pc), gfp_inv's local uvlen, and the number of    *)
(* in-place calls the caller may still make on its buffer r (budget).      *)
(***************************************************************************)
VARIABLES mem, pre, call, pc, uvlen, budget
vars == <<mem, pre, call, pc, uvlen, budget>>

Called(op, rp, ap, bp, neg, ret) ==
    [op |-> op, rp |-> rp, ap |-> ap, bp |-> bp, neg |-> neg, ret |-> ret]

Init ==
    /\ mem = [r |-> Junk]
    /\ pre = [r |-> Junk]
    /\ call = Called("none", "-", "-", "-", 0, 0)
    /\ pc = "idle"
    /\ uvlen = 0
    /\ budget = 0

\* A call of a function of mpiarith.c: w is its word argument, add its
\* condition value and len the length of its arrays.
MpiCalled(op, rp, ap, bp, w, add, len, ret) ==
    [op |-> op, rp |-> rp, ap |-> ap, bp |-> bp, neg |-> 0, ret |-> ret,
     w |-> w, add |-> add, len |-> len]

\* A call on memory m0 that has returned, leaving memory m1.
Returns(m0, m1, c, left) ==
    /\ mem' = m1
    /\ pre' = m0
    /\ call' = c
    /\ pc' = "returned"
    /\ uvlen' = 0
    /\ budget' = left

\* The operations whose result the test program passes to chk_vector.
DriverOps == {"add", "sub", "mul", "mul32", "sqr", "hlv", "cneg"}

\* chk_vector(op1, op2, exp, res): gfp_fred(res, res) on the result of the
\* operation that has just returned.
ChkVector ==
    /\ pc = "returned" /\ call.op \in DriverOps
    /\ Returns(mem, gfp_fred(mem, call.rp, call.rp),
               Called("fred", call.rp, call.rp, "-", 0, 0), 0)

\* The caller drops the buffers of the call that has returned.
Discard ==
    /\ pc = "returned" /\ call.op \notin DriverOps
    /\ mem' = [r |-> Junk]
    /\ pre' = [r |-> Junk]
    /\ call' = Called("none", "-", "-", "-", 0, 0)
    /\ pc' = "idle"
    /\ uvlen' = 0
    /\ budget' = 0

\* Calls on fresh operands a, b with a fresh result buffer r, as in the test
\* functions of the test driver.
Add ==
    /\ pc = "idle"
    /\ \E x \in Inputs, y \in Inputs :
        LET m0 == [a |-> x, b |-> y, r |-> Junk]
        IN  Returns(m0, gfp_add(m0, "r", "a", "b"),
                    Called("add", "r", "a", "b", 0, 0), 0)

Sub ==
    /\ pc = "idle"
    /\ \E x \in Inputs, y \in Inputs :
        LET m0 == [a |-> x, b |-> y, r |-> Junk]
        IN  Returns(m0, gfp_sub(m0, "r", "a", "b"),
                    Called("sub", "r", "a", "b", 0, 0), 0)

Mul ==
    /\ pc = "idle"
    /\ \E x \in Inputs, y \in Inputs :
        LET m0 == [a |-> x, b |-> y, r |-> Junk]
        IN  Returns(m0, gfp_mul(m0, "r", "a", "b"),
                    Called("mul", "r", "a", "b", 0, 0), 0)

Sqr ==
    /\ pc = "idle"
    /\ \E x \in Inputs :
        LET m0 == [a |-> x, r |-> Junk]
        IN  Returns(m0, gfp_sqr(m0, "r", "a"),
                    Called("sqr", "r", "a", "-", 0, 0), 0)

Mul32 ==
    /\ pc = "idle"
    /\ \E x \in Inputs, k \in Scalars :
        LET m0 == [a |-> x, b |-> <<k>>, r |-> Junk]
        IN  Returns(m0, gfp_mul32(m0, "r", "a", "b"),
                    Called("mul32", "r", "a", "b", 0, 0), 0)

Hlv ==
    /\ pc = "idle"
    /\ \E x \in Inputs :
        LET m0 == [a |-> x, r |-> Junk]
        IN  Returns(m0, gfp_hlv(m0, "r", "a"),
                    Called("hlv", "r", "a", "-", 0, 0), 0)

Cneg ==
    /\ pc = "idle"
    /\ \E x \in Inputs, neg \in NegValues :
        LET m0 == [a |-> x, r |-> Junk]
        IN  Returns(m0, gfp_cneg(m0, "r", "a", neg),
                    Called("cneg", "r", "a", "-", neg, 0), 0)

Fred ==
    /\ pc = "idle"
    /\ \E x \in Inputs :
        LET m0 == [a |-> x, r |-> Junk]
        IN  Returns(m0, gfp_fred(m0, "r", "a"),
                    Called("fred", "r", "a", "-", 0, 0), 0)

Cmp ==
    /\ pc = "idle"
    /\ \E x \in Inputs, y \in Inputs :
        LET m0 == [a |-> x, b |-> y]
        IN  Returns(m0, m0, Called("cmp", "-", "a", "b", 0, gfp_cmp(m0, "a", "b")), 0)

Cmpp ==
    /\ pc = "idle"
    /\ \E x \in Inputs :
        LET m0 == [a |-> x]
        IN  Returns(m0, m0, Called("cmpp", "-", "a", "-", 0, gfp_cmpp(m0["a"])), 0)

\* gfp_setp(r)
Setp ==
    /\ pc = "idle"
    /\ Returns([r |-> Junk], gfp_setp([r |-> Junk], "r"),
               Called("setp", "r", "-", "-", 0, 0), 0)

\* gfp_cmpp(r) on the array gfp_setp has written.
CmppSetp ==
    /\ pc = "returned" /\ call.op = "setp"
    /\ Returns(mem, mem, Called("cmpp", "-", "r", "-", 0, gfp_cmpp(mem["r"])), 0)

\* Calls in place on the buffer r: the caller loads r, a second operand b and
\* a scalar k (Load), and then calls r = op(r), r = op(r, b) or r = op(r, k)
\* on the result of the call before.
Load ==
    /\ pc = "idle"
    /\ \E x \in ChainInputs, y \in ChainInputs :
        Returns([r |-> Junk], [b |-> y, k |-> <<ScalarSample(1)>>, r |-> x],
                Called("load", "r", "-", "-", 0, 0), MaxChain)

AddTo ==
    /\ pc = "returned" /\ budget > 0
    /\ Returns(mem, gfp_add(mem, "r", "r", "b"),
               Called("add", "r", "r", "b", 0, 0), budget - 1)

SubTo ==
    /\ pc = "returned" /\ budget > 0
    /\ Returns(mem, gfp_sub(mem, "r", "r", "b"),
               Called("sub", "r", "r", "b", 0, 0), budget - 1)

MulTo ==
    /\ pc = "returned" /\ budget > 0
    /\ Returns(mem, gfp_mul(mem, "r", "r", "b"),
               Called("mul", "r", "r", "b", 0, 0), budget - 1)

SqrTo ==
    /\ pc = "returned" /\ budget > 0
    /\ Returns(mem, gfp_sqr(mem, "r", "r"),
               Called("sqr", "r", "r", "-", 0, 0), budget - 1)

Mul32To ==
    /\ pc = "returned" /\ budget > 0
    /\ Returns(mem, gfp_mul32(mem, "r", "r", "k"),
               Called("mul32", "r", "r", "k", 0, 0), budget - 1)

HlvTo ==
    /\ pc = "returned" /\ budget > 0
    /\ Returns(mem, gfp_hlv(mem, "r", "r"),
               Called("hlv", "r", "r", "-", 0, 0), budget - 1)

CnegTo ==
    /\ pc = "returned" /\ budget > 0
    /\ \E neg \in 0..1 :
        Returns(mem, gfp_cneg(mem, "r", "r", neg),
                Called("cneg", "r", "r", "-", neg, 0), budget - 1)

\* Calls whose result pointer is one of the operand pointers: the caller holds
\* the operands in its buffers a and b and passes a or b as r, and a or b as
\* the second operand (r = a, r = b and r = a = b).
AddAlias ==
    /\ pc = "idle"
    /\ \E x \in AliasInputs, y \in AliasInputs, rp \in {"a", "b"}, bp \in {"a", "b"} :
        LET m0 == [a |-> x, b |-> y]
        IN  Returns(m0, gfp_add(m0, rp, "a", bp), Called("add", rp, "a", bp, 0, 0), 0)

SubAlias ==
    /\ pc = "idle"
    /\ \E x \in AliasInputs, y \in AliasInputs, rp \in {"a", "b"}, bp \in {"a", "b"} :
        LET m0 == [a |-> x, b |-> y]
        IN  Returns(m0, gfp_sub(m0, rp, "a", bp), Called("sub", rp, "a", bp, 0, 0), 0)

MulAlias ==
    /\ pc = "idle"
    /\ \E x \in AliasInputs, y \in AliasInputs, rp \in {"a", "b"}, bp \in {"a", "b"} :
        LET m0 == [a |-> x, b |-> y]
        IN  Returns(m0, gfp_mul(m0, rp, "a", bp), Called("mul", rp, "a", bp, 0, 0), 0)

\* r = a with the scalar in its own buffer k, and r = a = b, where the scalar
\* b[0] is the least significant word of a.
Mul32Alias ==
    /\ pc = "idle"
    /\ \E x \in AliasInputs, k \in Scalars, bp \in {"a", "k"} :
        LET m0 == [a |-> x, k |-> <<k>>]
        IN  Returns(m0, gfp_mul32(m0, "a", "a", bp), Called("mul32", "a", "a", bp, 0, 0), 0)

SqrAlias ==
    /\ pc = "idle"
    /\ \E x \in AliasInputs :
        LET m0 == [a |-> x]
        IN  Returns(m0, gfp_sqr(m0, "a", "a"), Called("sqr", "a", "a", "-", 0, 0), 0)

HlvAlias ==
    /\ pc = "idle"
    /\ \E x \in AliasInputs :
        LET m0 == [a |-> x]
        IN  Returns(m0, gfp_hlv(m0, "a", "a"), Called("hlv", "a", "a", "-", 0, 0), 0)

CnegAlias ==
    /\ pc = "idle"
    /\ \E x \in AliasInputs, neg \in 0..1 :
        LET m0 == [a |-> x]
        IN  Returns(m0, gfp_cneg(m0, "a", "a", neg), Called("cneg", "a", "a", "-", neg, 0), 0)

\* gfp_fred(res, res), as in chk_vector.
FredAlias ==
    /\ pc = "idle"
    /\ \E x \in AliasInputs :
        LET m0 == [a |-> x]
        IN  Returns(m0, gfp_fred(m0, "a", "a"), Called("fred", "a", "a", "-", 0, 0), 0)

\* gfp_inv(a, a), one step at a time.
InvAlias ==
    /\ pc = "idle"
    /\ \E x \in AliasInputs :
        LET m0 == [a |-> x]
        IN  /\ mem' = inv_init(m0, "a", "a")
            /\ pre' = m0
            /\ call' = Called("inv", "a", "a", "-", 0, 0)
    /\ pc' = "reduce"
    /\ uvlen' = LEN
    /\ budget' = 0

\* Calls of the functions of mpiarith.c on integers of len words.
MpiCmpw ==
    /\ pc = "idle"
    /\ \E n \in CmpLens :
        \E x \in MpiInputs(n), w \in MpiWords :
            LET m0 == [a |-> x]
            IN  Returns(m0, m0, MpiCalled("mpi_cmpw", "-", "a", "-", w, 0, n,
                                          mpi_cmpw(x, w, n)), 0)

MpiCmp ==
    /\ pc = "idle"
    /\ \E n \in CmpLens :
        \E x \in MpiInputs(n), y \in MpiInputs(n) :
            LET m0 == [a |-> x, b |-> y]
            IN  Returns(m0, m0, MpiCalled("mpi_cmp", "-", "a", "b", Zero(WordLimbs), 0, n,
                                          mpi_cmp(x, y, n)), 0)

MpiSub ==
    /\ pc = "idle"
    /\ \E n \in MpiLens :
        \E x \in MpiInputs(n), y \in MpiInputs(n) :
            LET m0 == [a |-> x, b |-> y, r |-> JunkOf(n)]
                v  == mpi_sub(m0, "r", "a", "b", n)
            IN  Returns(m0, v.mem, MpiCalled("mpi_sub", "r", "a", "b", Zero(WordLimbs), 0, n,
                                             v.ret), 0)

MpiCadd ==
    /\ pc = "idle"
    /\ \E n \in MpiLens :
        \E x \in MpiInputs(n), y \in MpiInputs(n), add \in NegValues :
            LET m0 == [a |-> x, b |-> y, r |-> JunkOf(n)]
                v  == mpi_cadd(m0, "r", "a", "b", add, n)
            IN  Returns(m0, v.mem, MpiCalled("mpi_cadd", "r", "a", "b", Zero(WordLimbs), add, n,
                                             v.ret), 0)

\* The other functions of mpiarith.c.  The result buffer has one word more
\* than the function is to write.
MpiSetw ==
    /\ pc = "idle"
    /\ \E n \in MpiLens :
        \E w \in MpiWords :
            LET m0 == [r |-> JunkOf(n + 1)]
            IN  Returns(m0, mpi_setw(m0, "r", w, n),
                        MpiCalled("mpi_setw", "r", "-", "-", w, 0, n, 0), 0)

MpiCopy ==
    /\ pc = "idle"
    /\ \E n \in MpiLens :
        \E x \in MpiInputs(n) :
            LET m0 == [a |-> x, r |-> JunkOf(n + 1)]
            IN  Returns(m0, mpi_copy(m0, "r", "a", n),
                        MpiCalled("mpi_copy", "r", "a", "-", Zero(WordLimbs), 0, n, 0), 0)

MpiAdd ==
    /\ pc = "idle"
    /\ \E n \in MpiLens :
        \E x \in MpiInputs(n), y \in MpiInputs(n) :
            LET m0 == [a |-> x, b |-> y, r |-> JunkOf(n + 1)]
                v  == mpi_add(m0, "r", "a", "b", n)
            IN  Returns(m0, v.mem, MpiCalled("mpi_add", "r", "a", "b", Zero(WordLimbs), 0, n,
                                             v.ret), 0)

MpiShr ==
    /\ pc = "idle"
    /\ \E n \in MpiLens :
        \E x \in MpiInputs(n) :
            LET m0 == [a |-> x, r |-> JunkOf(n + 1)]
                v  == mpi_shr(m0, "r", "a", n)
            IN  Returns(m0, v.mem, MpiCalled("mpi_shr", "r", "a", "-", Zero(WordLimbs), 0, n,
                                             v.ret), 0)

\* assert((r != a) && (r != b));
MpiMul ==
    /\ pc = "idle"
    /\ \E n \in MpiLens :
        \E x \in MpiInputs(n), y \in MpiInputs(n) :
            LET m0 == [a |-> x, b |-> y, r |-> JunkOf(2 * n + 1)]
            IN  Returns(m0, mpi_mul(m0, "r", "a", "b", n),
                        MpiCalled("mpi_mul", "r", "a", "b", Zero(WordLimbs), 0, n, 0), 0)

\* gfp_sub and gfp_sub_v2 on the same operands, with the results r and r2.
SubV2 ==
    /\ pc = "idle"
    /\ \E x \in V2Inputs, y \in V2Inputs :
        LET m0 == [a |-> x, b |-> y, r |-> Junk, r2 |-> Junk]
        IN  Returns(m0, gfp_sub_v2(gfp_sub(m0, "r", "a", "b"), "r2", "a", "b"),
                    Called("sub_v2", "r", "a", "b", 0, 0), 0)

\* gfp_cneg and gfp_cneg_v2 on the same operand, with the results r and r2.
CnegV2 ==
    /\ pc = "idle"
    /\ \E x \in V2Inputs, neg \in NegValues :
        LET m0 == [a |-> x, r |-> Junk, r2 |-> Junk]
        IN  Returns(m0, gfp_cneg_v2(gfp_cneg(m0, "r", "a", neg), "r2", "a", neg),
                    Called("cneg_v2", "r", "a", "-", neg, 0), 0)

\* gfp_inv on a fresh operand, one step at a time.
InvCall ==
    /\ pc = "idle"
    /\ \E x \in InvInputs :
        LET m0 == [a |-> x, r |-> Junk]
        IN  /\ mem' = inv_init(m0, "r", "a")
            /\ pre' = m0
            /\ call' = Called("inv", "r", "a", "-", 0, 0)
    /\ pc' = "reduce"
    /\ uvlen' = LEN
    /\ budget' = 0

\* while (mpi_cmp(ux, vx, LEN) >= 0) mpi_sub(ux, ux, vx, LEN);
InvReduce ==
    /\ pc = "reduce"
    /\ mpi_cmp(mem["ux"], mem["vx"], LEN) >= 0
    /\ mem' = mpi_sub(mem, "ux", "ux", "vx", LEN).mem
    /\ UNCHANGED <<pre, call, pc, uvlen, budget>>

\* if (mpi_cmpw(ux, 0, LEN) == 0) return M25519_ERR_INVERS;
InvZero ==
    /\ pc = "reduce"
    /\ mpi_cmp(mem["ux"], mem["vx"], LEN) < 0
    /\ mpi_cmpw(mem["ux"], Zero(WordLimbs), LEN) = 0
    /\ Returns(pre, Free(mem, InvLocals), [call EXCEPT !.ret = M25519_ERR_INVERS], 0)

InvNonZero ==
    /\ pc = "reduce"
    /\ mpi_cmp(mem["ux"], mem["vx"], LEN) < 0
    /\ mpi_cmpw(mem["ux"], Zero(WordLimbs), LEN) # 0
    /\ pc' = "loop"
    /\ UNCHANGED <<mem, pre, call, uvlen, budget>>

\* while (mpi_cmpw(ux, 1, uvlen) && mpi_cmpw(vx, 1, uvlen)) {
InvLoop ==
    /\ pc = "loop"
    /\ inv_continue(mem, uvlen)
    /\ pc' = "ueven"
    /\ UNCHANGED <<mem, pre, call, uvlen, budget>>

\* while ((ux[0] & 1) == 0) { mpi_shr(ux, ux, uvlen); gfp_hlv(x1, x1); }
InvHalveU ==
    /\ pc = "ueven"
    /\ inv_even(mem, "ux")
    /\ mem' = inv_halve(mem, "ux", "x1", uvlen)
    /\ UNCHANGED <<pre, call, pc, uvlen, budget>>

InvOddU ==
    /\ pc = "ueven"
    /\ ~inv_even(mem, "ux")
    /\ pc' = "veven"
    /\ UNCHANGED <<mem, pre, call, uvlen, budget>>

\* while ((vx[0] & 1) == 0) { mpi_shr(vx, vx, uvlen); gfp_hlv(x2, x2); }
InvHalveV ==
    /\ pc = "veven"
    /\ inv_even(mem, "vx")
    /\ mem' = inv_halve(mem, "vx", call.rp, uvlen)
    /\ UNCHANGED <<pre, call, pc, uvlen, budget>>

InvOddV ==
    /\ pc = "veven"
    /\ ~inv_even(mem, "vx")
    /\ pc' = "odd"
    /\ UNCHANGED <<mem, pre, call, uvlen, budget>>

\* if (mpi_cmp(ux, vx, uvlen) >= 0) { mpi_sub(ux, ux, vx, uvlen);
\*   gfp_sub(x1, x1, x2); } ... if (...) uvlen--;
InvSubU ==
    /\ pc = "odd"
    /\ mpi_cmp(mem["ux"], mem["vx"], uvlen) >= 0
    /\ mem' = inv_subtract(mem, "ux", "vx", "x1", call.rp, uvlen)
    /\ uvlen' = inv_uvlen(mem', uvlen)
    /\ pc' = "loop"
    /\ UNCHANGED <<pre, call, budget>>

\* ... else { mpi_sub(vx, vx, ux, uvlen); gfp_sub(x2, x2, x1); } if (...) uvlen--;
InvSubV ==
    /\ pc = "odd"
    /\ mpi_cmp(mem["ux"], mem["vx"], uvlen) < 0
    /\ mem' = inv_subtract(mem, "vx", "ux", call.rp, "x1", uvlen)
    /\ uvlen' = inv_uvlen(mem', uvlen)
    /\ pc' = "loop"
    /\ UNCHANGED <<pre, call, budget>>

\* } if (mpi_cmpw(ux, 1, LEN) == 0) mpi_copy(r, x1, LEN); return M25519_NO_ERROR;
InvReturn ==
    /\ pc = "loop"
    /\ ~inv_continue(mem, uvlen)
    /\ Returns(pre, Free(inv_result(mem, call.rp), InvLocals),
               [call EXCEPT !.ret = M25519_NO_ERROR], 0)

Next ==
    \/ Add \/ Sub \/ Mul \/ Sqr \/ Mul32 \/ Hlv \/ Cneg \/ Fred \/ Cmp \/ Cmpp
    \/ Load \/ AddTo \/ SubTo \/ MulTo \/ SqrTo \/ Mul32To \/ HlvTo \/ CnegTo
    \/ InvCall \/ InvReduce \/ InvZero \/ InvNonZero \/ InvLoop
    \/ InvHalveU \/ InvOddU \/ InvHalveV \/ InvOddV \/ InvSubU \/ InvSubV
    \/ InvReturn \/ Discard
    \/ AddAlias \/ SubAlias \/ MulAlias \/ Mul32Alias \/ SqrAlias \/ HlvAlias
    \/ CnegAlias \/ FredAlias \/ InvAlias
    \/ MpiCmpw \/ MpiCmp \/ MpiSub \/ MpiCadd
    \/ MpiSetw \/ MpiCopy \/ MpiAdd \/ MpiShr \/ MpiMul
    \/ SubV2 \/ CnegV2 \/ ChkVector \/ Setp \/ CmppSetp

Spec == Init /\ [][Next]_vars

(***************************************************************************)
(* Two calls at a time.  Two threads call into the library at once, each   *)
(* with caller buffers of its own in the one memory both can reach, and    *)
(* each with a stack of its own for the automatic variables of its calls.  *)
(* Here mem is [heap, stack] and pre is the heap before the calls.  The    *)
(* stack of a thread holds the parameters and scalar locals of each        *)
(* function it has called as a record under the name of the function, and  *)
(* the local arrays under their names.  pc[t] is the chain of the active   *)
(* calls of thread t, innermost first: [fn, at, ret] with the line of the  *)
(* next statement of fn and the value the last call made by fn returned.   *)
(* A step of a thread is one statement of the function it is in: a for     *)
(* statement at line n is the steps "n" (initialisation), "n?" (test),     *)
(* "n:" (a body on the same line) and "n+" (increment); "n=" assigns the   *)
(* value a call at line n has returned.                                    *)
(***************************************************************************)
NumConcInputs == 1
Threads == {1, 2}
\* The buffers the caller of thread t passes: no two of them overlap.
ConcBufs ==
    <<[a |-> "a1", b |-> "b1", r |-> "r1"], [a |-> "a2", b |-> "b2", r |-> "r2"]>>
\* The calls a thread makes: gfp_inv of p + 2 and of 0, and gfp_fred, gfp_cmp
\* and mpi_sub of the operand samples.
ConcOps == <<"fred", "cmp", "sub">>
ConcCall(k) ==
    IF k <= 2
    THEN [op |-> "inv", b |-> ZeroElem,
          a |-> IF k = 1 THEN WordsOf(NatAdd(PNat, NatInt(2)), LEN) ELSE ZeroElem]
    ELSE [op |-> ConcOps[((k - 3) % 3) + 1], a |-> Sample(((k - 3) \div 3) + 1),
          b |-> Sample(((k - 3) \div 3) + 2)]
NumConcCalls == 2 + 3 * NumConcInputs

\* The automatic variables of every call in one static area.
ConcFrame_static(t) == 1
\* The automatic variables of a call are in the stack of the calling thread.
ConcFrame(t) == t
\* An automatic variable p with the value v.
Auto(m, p, v) == [q \in DOMAIN m \cup {p} |-> IF q = p THEN v ELSE m[q]]
\* The memory thread t can address: the heap and its own stack.
ConcView(t) ==
    LET f == mem.stack[ConcFrame(t)]
    IN  [q \in DOMAIN mem.heap \cup DOMAIN f |->
            IF q \in DOMAIN f THEN f[q] ELSE mem.heap[q]]
ConcState(t) == [mem |-> ConcView(t), pc |-> pc[t]]

\* The state s of a thread after a statement: control goes to l;
Jump(s, l) == [s EXCEPT !.pc[1].at = l]
\* the local x of the running function is set to v;
Assign(s, x, v, l) ==
    [s EXCEPT !.mem[s.pc[1].fn] = Auto(@, x, v), !.pc[1].at = l]
\* p[i] = w;
Store(s, p, i, w, l) == [s EXCEPT !.mem = wr(@, p, i, w), !.pc[1].at = l]
\* fn is called with the parameters args and the local arrays arrs, to
\* return to l;
Invoke(s, l, fn, entry, args, arrs) ==
    [s EXCEPT !.mem = [q \in DOMAIN s.mem \cup arrs \cup {fn} |->
                          IF q = fn THEN args
                          ELSE IF q \in arrs THEN Local(LEN) ELSE s.mem[q]],
              !.pc = <<[fn |-> fn, at |-> entry, ret |-> 0]>>
                         \o [s.pc EXCEPT ![1].at = l]]
\* return v; and the end of a function without a value.
Return(s, v) == [s EXCEPT !.pc = [Tail(s.pc) EXCEPT ![1].ret = v]]
Leave(s) == [s EXCEPT !.pc = Tail(s.pc)]

\* mpi_setw(r, a, len); f holds its parameters and locals, l is the line.
mpi_setw_stmt(s, f, l) ==
    CASE l = "175"  -> Assign(s, "i", f.len - 1, "175?")
      [] l = "175?" -> Jump(s, IF f.i > 0 THEN "175:" ELSE "176")
      [] l = "175:" -> Store(s, f.r, f.i, Zero(WordLimbs), "175+")
      [] l = "175+" -> Assign(s, "i", f.i - 1, "175?")
      [] l = "176"  -> Store(s, f.r, 0, f.a, "177")
      [] l = "177"  -> Leave(s)
      [] OTHER      -> s

\* mpi_cmpw(a, b, len)
mpi_cmpw_stmt(s, f, l) ==
    CASE l = "185"  -> Assign(s, "is0", Zero(WordLimbs), "186")
      [] l = "186"  -> Assign(s, "r", 0, "188")
      [] l = "188"  -> Assign(s, "i", f.len - 1, "188?")
      [] l = "188?" -> Jump(s, IF f.i > 0 THEN "188:" ELSE "189")
      [] l = "188:" -> Assign(s, "is0", UOr(f.is0, rd(s.mem, f.a, f.i)), "188+")
      [] l = "188+" -> Assign(s, "i", f.i - 1, "188?")
      [] l = "189"  ->
            Assign(s, "r", f.r + IntOf(UOr(BoolWord(ULt(rd(s.mem, f.a, 0), f.b)),
                                           BoolWord(f.is0 # Zero(WordLimbs)))), "190")
      [] l = "190"  ->
            Assign(s, "r", f.r - IntOf(UAnd(BoolWord(ULt(f.b, rd(s.mem, f.a, 0))),
                                            BoolWord(f.is0 = Zero(WordLimbs)))), "192")
      [] l = "192"  -> Return(s, f.r)
      [] OTHER      -> s

\* mpi_cmp(a, b, len); a failed assertion stops the thread.
mpi_cmp_stmt(s, f, l) ==
    CASE l = "201"  ->
            Assign(Assign(s, "lt", Zero(WordLimbs), "201"), "gt", Zero(WordLimbs), "202")
      [] l = "202"  -> Assign(s, "r", 0, "204")
      [] l = "204"  -> Jump(s, IF f.len <= WSIZE THEN "206" ELSE "abort")
      [] l = "206"  -> Assign(s, "i", f.len - 1, "206?")
      [] l = "206?" -> Jump(s, IF f.i >= 0 THEN "207" ELSE "210")
      [] l = "207"  ->
            Assign(s, "lt", UOr(UShl(f.lt, 1),
                                BoolWord(ULt(rd(s.mem, f.a, f.i), rd(s.mem, f.b, f.i)))),
                   "208")
      [] l = "208"  ->
            Assign(s, "gt", UOr(UShl(f.gt, 1),
                                BoolWord(ULt(rd(s.mem, f.b, f.i), rd(s.mem, f.a, f.i)))),
                   "206+")
      [] l = "206+" -> Assign(s, "i", f.i - 1, "206?")
      [] l = "210"  -> Assign(s, "r", f.r + (IF ULt(f.lt, f.gt) THEN 1 ELSE 0), "211")
      [] l = "211"  -> Assign(s, "r", f.r - (IF ULt(f.gt, f.lt) THEN 1 ELSE 0), "213")
      [] l = "213"  -> Return(s, f.r)
      [] OTHER      -> s

\* mpi_copy(r, a, len)
mpi_copy_stmt(s, f, l) ==
    CASE l = "224"  -> Assign(s, "i", f.len - 1, "224?")
      [] l = "224?" -> Jump(s, IF f.i >= 0 THEN "224:" ELSE "225")
      [] l = "224:" -> Store(s, f.r, f.i, rd(s.mem, f.a, f.i), "224+")
      [] l = "224+" -> Assign(s, "i", f.i - 1, "224?")
      [] l = "225"  -> Leave(s)
      [] OTHER      -> s

\* mpi_cadd(r, a, b, add, len)
mpi_cadd_stmt(s, f, l) ==
    CASE l = "256"  -> Assign(s, "sum", Zero(DWordLimbs), "257")
      [] l = "257"  -> Assign(s, "mask", Cast(0 - (f.add % 2), WordLimbs), "260")
      [] l = "260"  -> Assign(s, "i", 0, "260?")
      [] l = "260?" -> Jump(s, IF f.i < f.len THEN "261" ELSE "266")
      [] l = "261"  ->
            Assign(s, "sum", UAdd(f.sum, UAdd(ToDWord(rd(s.mem, f.a, f.i)),
                                              ToDWord(UAnd(rd(s.mem, f.b, f.i), f.mask)))),
                   "262")
      [] l = "262"  -> Store(s, f.r, f.i, ToWord(f.sum), "263")
      [] l = "263"  -> Assign(s, "sum", UShr(f.sum, WSIZE), "260+")
      [] l = "260+" -> Assign(s, "i", f.i + 1, "260?")
      [] l = "266"  -> Return(s, IntOf(f.sum))
      [] OTHER      -> s

\* mpi_shr(r, a, len)
mpi_shr_stmt(s, f, l) ==
    CASE l = "321"  ->
            Assign(s, "retval", IntOf(UAnd(rd(s.mem, f.a, 0), Cast(1, WordLimbs))), "322")
      [] l = "322"  -> Assign(s, "i", 0, "322?")
      [] l = "322?" -> Jump(s, IF f.i < f.len - 1 THEN "322:" ELSE "323")
      [] l = "322:" ->
            Store(s, f.r, f.i, UOr(UShl(rd(s.mem, f.a, f.i + 1), WSIZE - 1),
                                   UShr(rd(s.mem, f.a, f.i), 1)), "322+")
      [] l = "322+" -> Assign(s, "i", f.i + 1, "322?")
      [] l = "323"  -> Store(s, f.r, f.len - 1, UShr(rd(s.mem, f.a, f.len - 1), 1), "325")
      [] l = "325"  -> Return(s, f.retval)
      [] OTHER      -> s

\* mpi_sub(r, a, b, len)
mpi_sub_stmt(s, f, l) ==
    CASE l = "334"  -> Assign(s, "dif", Cast(1, DWordLimbs), "337")
      [] l = "337"  -> Assign(s, "i", 0, "337?")
      [] l = "337?" -> Jump(s, IF f.i < f.len THEN "338" ELSE "343")
      [] l = "338"  ->
            Assign(s, "dif", UAdd(f.dif, UAdd(ToDWord(rd(s.mem, f.a, f.i)),
                                              ToDWord(UNot(rd(s.mem, f.b, f.i))))),
                   "339")
      [] l = "339"  -> Store(s, f.r, f.i, ToWord(f.dif), "340")
      [] l = "340"  -> Assign(s, "dif", UShr(f.dif, WSIZE), "337+")
      [] l = "337+" -> Assign(s, "i", f.i + 1, "337?")
      [] l = "343"  -> Return(s, 1 - IntOf(f.dif))
      [] OTHER      -> s

\* gfp_setp(r)
gfp_setp_stmt(s, f, l) ==
    CASE l = "103"  -> Store(s, f.r, LEN - 1, MSB0MASK, "104")
      [] l = "104"  -> Assign(s, "i", LEN - 2, "104?")
      [] l = "104?" -> Jump(s, IF f.i > 0 THEN "104:" ELSE "105")
      [] l = "104:" -> Store(s, f.r, f.i, ALL1MASK, "104+")
      [] l = "104+" -> Assign(s, "i", f.i - 1, "104?")
      [] l = "105"  -> Store(s, f.r, 0, Cast(0 - CONSTC, WordLimbs), "106")
      [] l = "106"  -> Leave(s)
      [] OTHER      -> s

\* gfp_sub(r, a, b)
gfp_sub_stmt(s, f, l) ==
    CASE l = "208"  ->
            Assign(s, "sum", USub(UAdd(FOURXPHI, ToDWord(rd(s.mem, f.a, LEN - 1))),
                                  ToDWord(rd(s.mem, f.b, LEN - 1))), "209")
      [] l = "209"  -> Assign(s, "msw", UAnd(ToWord(f.sum), MSB0MASK), "210")
      [] l = "210"  ->
            Assign(s, "sum", UMul(Cast(CONSTC, DWordLimbs),
                                  ToDWord(ToWord(SShr(f.sum, WSIZE - 1))), DWordLimbs),
                   "211")
      [] l = "211"  -> Assign(s, "sum", USub(f.sum, Cast(CONSTC * 4, DWordLimbs)), "214")
      [] l = "214"  -> Assign(s, "i", 0, "214?")
      [] l = "214?" -> Jump(s, IF f.i < LEN - 1 THEN "215" ELSE "220")
      [] l = "215"  ->
            Assign(s, "sum", UAdd(f.sum, USub(ToDWord(rd(s.mem, f.a, f.i)),
                                              ToDWord(rd(s.mem, f.b, f.i)))), "216")
      [] l = "216"  -> Store(s, f.r, f.i, ToWord(f.sum), "217")
      [] l = "217"  -> Assign(s, "sum", SShr(f.sum, WSIZE), "214+")
      [] l = "214+" -> Assign(s, "i", f.i + 1, "214?")
      [] l = "220"  ->
            Store(s, f.r, LEN - 1,
                  UAdd(UAdd(f.msw, ToWord(f.sum)), Cast(4, WordLimbs)), "222")
      [] l = "222"  -> Leave(s)
      [] OTHER      -> s

\* gfp_hlv(r, a)
gfp_hlv_stmt(s, f, l) ==
    CASE l = "284"  ->
            Assign(s, "mask", USub(Zero(WordLimbs),
                                   UAnd(rd(s.mem, f.a, 0), Cast(1, WordLimbs))), "285")
      [] l = "285"  ->
            Assign(s, "sum", USub(ToDWord(rd(s.mem, f.a, 0)),
                                  ToDWord(UAnd(Cast(CONSTC, WordLimbs), f.mask))), "286")
      [] l = "286"  -> Assign(s, "tmp", ToWord(f.sum), "287")
      [] l = "287"  -> Assign(s, "sum", SShr(f.sum, WSIZE), "290")
      [] l = "290"  -> Assign(s, "i", 1, "290?")
      [] l = "290?" -> Jump(s, IF f.i < LEN - 1 THEN "291" ELSE "297")
      [] l = "291"  -> Assign(s, "sum", UAdd(f.sum, ToDWord(rd(s.mem, f.a, f.i))), "292")
      [] l = "292"  ->
            Store(s, f.r, f.i - 1,
                  UOr(UShl(ToWord(f.sum), WSIZE - 1), UShr(f.tmp, 1)), "293")
      [] l = "293"  -> Assign(s, "tmp", ToWord(f.sum), "294")
      [] l = "294"  -> Assign(s, "sum", SShr(f.sum, WSIZE), "290+")
      [] l = "290+" -> Assign(s, "i", f.i + 1, "290?")
      [] l = "297"  ->
            Assign(s, "sum", UAdd(f.sum, UAdd(ToDWord(rd(s.mem, f.a, LEN - 1)),
                                              ToDWord(UAnd(MSB1MASK, f.mask)))), "298")
      [] l = "298"  ->
            Store(s, f.r, LEN - 2,
                  UOr(UShl(ToWord(f.sum), WSIZE - 1), UShr(f.tmp, 1)), "299")
      [] l = "299"  -> Store(s, f.r, LEN - 1, ToWord(SShr(f.sum, 1)), "300")
      [] l = "300"  -> Leave(s)
      [] OTHER      -> s

\* gfp_fred(r, a), with the local array p
gfp_fred_stmt(s, f, l) ==
    CASE l = "518"  -> Invoke(s, "519", "gfp_setp", "103", [r |-> "p"], {})
      [] l = "519"  ->
            Invoke(s, "519=", "mpi_sub", "334",
                   [r |-> f.r, a |-> f.a, b |-> "p", len |-> LEN], {})
      [] l = "519=" -> Assign(s, "rbit", s.pc[1].ret, "520")
      [] l = "520"  ->
            Invoke(s, "521", "mpi_cadd", "256",
                   [r |-> f.r, a |-> f.r, b |-> "p", add |-> f.rbit, len |-> LEN], {})
      [] l = "521"  ->
            Invoke(s, "521=", "mpi_sub", "334",
                   [r |-> f.r, a |-> f.r, b |-> "p", len |-> LEN], {})
      [] l = "521=" -> Assign(s, "rbit", s.pc[1].ret, "522")
      [] l = "522"  ->
            Invoke(s, "523", "mpi_cadd", "256",
                   [r |-> f.r, a |-> f.r, b |-> "p", add |-> f.rbit, len |-> LEN], {})
      [] l = "523"  -> Leave(s)
      [] OTHER      -> s

\* gfp_cmp(a, b), with the local arrays p, ar and br (the thirds of tmp)
gfp_cmp_stmt(s, f, l) ==
    CASE l = "541"  -> Invoke(s, "543", "gfp_setp", "103", [r |-> "p"], {})
      [] l = "543"  ->
            Invoke(s, "543=", "mpi_sub", "334",
                   [r |-> "ar", a |-> f.a, b |-> "p", len |-> LEN], {})
      [] l = "543=" -> Assign(s, "rbit", s.pc[1].ret, "544")
      [] l = "544"  ->
            Invoke(s, "545", "mpi_cadd", "256",
                   [r |-> "ar", a |-> "ar", b |-> "p", add |-> f.rbit, len |-> LEN], {})
      [] l = "545"  ->
            Invoke(s, "545=", "mpi_sub", "334",
                   [r |-> "ar", a |-> "ar", b |-> "p", len |-> LEN], {})
      [] l = "545=" -> Assign(s, "rbit", s.pc[1].ret, "546")
      [] l = "546"  ->
            Invoke(s, "548", "mpi_cadd", "256",
                   [r |-> "ar", a |-> "ar", b |-> "p", add |-> f.rbit, len |-> LEN], {})
      [] l = "548"  ->
            Invoke(s, "548=", "mpi_sub", "334",
                   [r |-> "br", a |-> f.b, b |-> "p", len |-> LEN], {})
      [] l = "548=" -> Assign(s, "rbit", s.pc[1].ret, "549")
      [] l = "549"  ->
            Invoke(s, "550", "mpi_cadd", "256",
                   [r |-> "br", a |-> "br", b |-> "p", add |-> f.rbit, len |-> LEN], {})
      [] l = "550"  ->
            Invoke(s, "550=", "mpi_sub", "334",
                   [r |-> "br", a |-> "br", b |-> "p", len |-> LEN], {})
      [] l = "550=" -> Assign(s, "rbit", s.pc[1].ret, "551")
      [] l = "551"  ->
            Invoke(s, "553", "mpi_cadd", "256",
                   [r |-> "br", a |-> "br", b |-> "p", add |-> f.rbit, len |-> LEN], {})
      [] l = "553"  ->
            Invoke(s, "553=", "mpi_cmp", "201", [a |-> "ar", b |-> "br", len |-> LEN], {})
      [] l = "553=" -> Assign(s, "rbit", s.pc[1].ret, "555")
      [] l = "555"  -> Return(s, f.rbit)
      [] OTHER      -> s

\* gfp_inv(r, a), with the local arrays ux, vx and x1 (the thirds of tmp)
gfp_inv_stmt(s, f, l) ==
    CASE l = "581"  -> Assign(s, "x2", f.r, "582")
      [] l = "582"  -> Assign(s, "uvlen", LEN, "584")
      [] l = "584"  ->
            Invoke(s, "585", "mpi_copy", "224", [r |-> "ux", a |-> f.a, len |-> LEN], {})
      [] l = "585"  -> Invoke(s, "586", "gfp_setp", "103", [r |-> "vx"], {})
      [] l = "586"  ->
            Invoke(s, "587", "mpi_setw", "175",
                   [r |-> "x1", a |-> Cast(1, WordLimbs), len |-> LEN], {})
      [] l = "587"  ->
            Invoke(s, "589", "mpi_setw", "175",
                   [r |-> f.x2, a |-> Zero(WordLimbs), len |-> LEN], {})
      [] l = "589"  ->
            Invoke(s, "589?", "mpi_cmp", "201", [a |-> "ux", b |-> "vx", len |-> LEN], {})
      [] l = "589?" -> Jump(s, IF s.pc[1].ret >= 0 THEN "589:" ELSE "590")
      [] l = "589:" ->
            Invoke(s, "589", "mpi_sub", "334",
                   [r |-> "ux", a |-> "ux", b |-> "vx", len |-> LEN], {})
      [] l = "590"  ->
            Invoke(s, "590?", "mpi_cmpw", "185",
                   [a |-> "ux", b |-> Zero(WordLimbs), len |-> LEN], {})
      [] l = "590?" -> Jump(s, IF s.pc[1].ret = 0 THEN "590:" ELSE "592")
      [] l = "590:" -> Return(s, M25519_ERR_INVERS)
      [] l = "592"  ->
            Invoke(s, "592?", "mpi_cmpw", "185",
                   [a |-> "ux", b |-> Cast(1, WordLimbs), len |-> f.uvlen], {})
      [] l = "592?" -> Jump(s, IF s.pc[1].ret # 0 THEN "592&" ELSE "612")
      [] l = "592&" ->
            Invoke(s, "592&?", "mpi_cmpw", "185",
                   [a |-> "vx", b |-> Cast(1, WordLimbs), len |-> f.uvlen], {})
      [] l = "592&?" -> Jump(s, IF s.pc[1].ret # 0 THEN "593" ELSE "612")
      [] l = "593"  ->
            Jump(s, IF UAnd(rd(s.mem, "ux", 0), Cast(1, WordLimbs)) = Zero(WordLimbs)
                    THEN "594" ELSE "597")
      [] l = "594"  ->
            Invoke(s, "595", "mpi_shr", "321", [r |-> "ux", a |-> "ux", len |-> f.uvlen], {})
      [] l = "595"  -> Invoke(s, "593", "gfp_hlv", "284", [r |-> "x1", a |-> "x1"], {})
      [] l = "597"  ->
            Jump(s, IF UAnd(rd(s.mem, "vx", 0), Cast(1, WordLimbs)) = Zero(WordLimbs)
                    THEN "598" ELSE "602")
      [] l = "598"  ->
            Invoke(s, "599", "mpi_shr", "321", [r |-> "vx", a |-> "vx", len |-> f.uvlen], {})
      [] l = "599"  -> Invoke(s, "597", "gfp_hlv", "284", [r |-> f.x2, a |-> f.x2], {})
      [] l = "602"  ->
            Invoke(s, "602?", "mpi_cmp", "201",
                   [a |-> "ux", b |-> "vx", len |-> f.uvlen], {})
      [] l = "602?" -> Jump(s, IF s.pc[1].ret >= 0 THEN "603" ELSE "606")
      [] l = "603"  ->
            Invoke(s, "604", "mpi_sub", "334",
                   [r |-> "ux", a |-> "ux", b |-> "vx", len |-> f.uvlen], {})
      [] l = "604"  ->
            Invoke(s, "609", "gfp_sub", "208", [r |-> "x1", a |-> "x1", b |-> f.x2], {})
      [] l = "606"  ->
            Invoke(s, "607", "mpi_sub", "334",
                   [r |-> "vx", a |-> "vx", b |-> "ux", len |-> f.uvlen], {})
      [] l = "607"  ->
            Invoke(s, "609", "gfp_sub", "208", [r |-> f.x2, a |-> f.x2, b |-> "x1"], {})
      [] l = "609"  ->
            Jump(s, IF /\ rd(s.mem, "ux", f.uvlen - 1) = Zero(WordLimbs)
                       /\ rd(s.mem, "vx", f.uvlen - 1) = Zero(WordLimbs)
                    THEN "609:" ELSE "592")
      [] l = "609:" -> Assign(s, "uvlen", f.uvlen - 1, "592")
      [] l = "612"  ->
            Invoke(s, "612?", "mpi_cmpw", "185",
                   [a |-> "ux", b |-> Cast(1, WordLimbs), len |-> LEN], {})
      [] l = "612?" -> Jump(s, IF s.pc[1].ret = 0 THEN "612:" ELSE "613")
      [] l = "612:" ->
            Invoke(s, "613", "mpi_copy", "224", [r |-> f.r, a |-> "x1", len |-> LEN], {})
      [] l = "613"  -> Return(s, M25519_NO_ERROR)
      [] OTHER      -> s

\* The caller of thread t: the call c, and then nothing more.
caller_stmt(s, c, l) ==
    CASE l = "call" /\ c.op = "inv" ->
            Invoke(s, "done", "gfp_inv", "581", [r |-> c.rp, a |-> c.ap],
                   {"ux", "vx", "x1"})
      [] l = "call" /\ c.op = "fred" ->
            Invoke(s, "done", "gfp_fred", "518", [r |-> c.rp, a |-> c.ap], {"p"})
      [] l = "call" /\ c.op = "cmp" ->
            Invoke(s, "done", "gfp_cmp", "541", [a |-> c.ap, b |-> c.bp],
                   {"p", "ar", "br"})
      [] l = "call" /\ c.op = "sub" ->
            Invoke(s, "done", "mpi_sub", "334",
                   [r |-> c.rp, a |-> c.ap, b |-> c.bp, len |-> LEN], {})
      [] OTHER -> s

\* One statement of the call c from the state s of its thread.
conc_step(s, c) ==
    LET fn == s.pc[1].fn
        l  == s.pc[1].at
    IN  CASE fn = "caller"   -> caller_stmt(s, c, l)
          [] fn = "mpi_setw" -> mpi_setw_stmt(s, s.mem[fn], l)
          [] fn = "mpi_cmpw" -> mpi_cmpw_stmt(s, s.mem[fn], l)
          [] fn = "mpi_cmp"  -> mpi_cmp_stmt(s, s.mem[fn], l)
          [] fn = "mpi_copy" -> mpi_copy_stmt(s, s.mem[fn], l)
          [] fn = "mpi_cadd" -> mpi_cadd_stmt(s, s.mem[fn], l)
          [] fn = "mpi_shr"  -> mpi_shr_stmt(s, s.mem[fn], l)
          [] fn = "mpi_sub"  -> mpi_sub_stmt(s, s.mem[fn], l)
          [] fn = "gfp_setp" -> gfp_setp_stmt(s, s.mem[fn], l)
          [] fn = "gfp_sub"  -> gfp_sub_stmt(s, s.mem[fn], l)
          [] fn = "gfp_hlv"  -> gfp_hlv_stmt(s, s.mem[fn], l)
          [] fn = "gfp_fred" -> gfp_fred_stmt(s, s.mem[fn], l)
          [] fn = "gfp_cmp"  -> gfp_cmp_stmt(s, s.mem[fn], l)
          [] OTHER           -> gfp_inv_stmt(s, s.mem[fn], l)

ConcInit ==
    \* The threads are alike: the call of thread 1 is not after that of
    \* thread 2 in the list of calls.
    /\ \E i \in 1..NumConcCalls : \E j \in i..NumConcCalls :
        LET c == <<ConcCall(i), ConcCall(j)>> IN
        /\ pre = [a1 |-> c[1].a, b1 |-> c[1].b, r1 |-> Junk,
                  a2 |-> c[2].a, b2 |-> c[2].b, r2 |-> Junk]
        /\ mem = [heap |-> pre, stack |-> [t \in Threads |-> [q \in {} |-> 0]]]
        /\ call = [t \in Threads |->
                     Called(c[t].op, ConcBufs[t].r, ConcBufs[t].a, ConcBufs[t].b, 0, 0)]
    /\ pc = [t \in Threads |-> <<[fn |-> "caller", at |-> "call", ret |-> 0]>>]
    /\ uvlen = 0
    /\ budget = 0

\* Has the call of thread t returned to its caller?
ConcDone(t) == pc[t][1].at = "done"

\* Thread t stores what its step has written: n is its state after the step.
ConcStore(t, n) ==
    /\ mem' = [heap |-> [q \in DOMAIN mem.heap |-> n.mem[q]],
               stack |-> [mem.stack EXCEPT ![ConcFrame(t)] =
                             [q \in DOMAIN n.mem \ DOMAIN mem.heap |-> n.mem[q]]]]
    /\ pc' = [pc EXCEPT ![t] = n.pc]
    /\ call' = [call EXCEPT ![t].ret = n.pc[Len(n.pc)].ret]
    /\ UNCHANGED <<pre, uvlen, budget>>

ConcRun(t) ==
    /\ ~ConcDone(t)
    /\ ConcStore(t, conc_step(ConcState(t), call[t]))

ConcNext == \E t \in Threads : ConcRun(t)

ConcSpec == ConcInit /\ [][ConcNext]_vars
(***************************************************************************)
(* Properties.  They speak about the call that has returned last: its      *)
(* operands are read from pre, its result from mem.                        *)
(***************************************************************************)
Returned(op) == pc = "returned" /\ call.op = op
ArgA == NatOf(pre[call.ap])
ArgB == NatOf(pre[call.bp])
Res == NatOf(mem[call.rp])
\* gfp_fred, gfp_add, gfp_mul, gfp_hlv and gfp_cneg applied to given values.
FredOf(x) == NatOf(gfp_fred([a |-> x, r |-> Junk], "r", "a")["r"])
AddOf(x, y) == gfp_add([a |-> x, b |-> y, r |-> Junk], "r", "a", "b")["r"]
MulOf(x, y) == gfp_mul([a |-> x, b |-> y, r |-> Junk], "r", "a", "b")["r"]
HlvOf(x) == gfp_hlv([a |-> x, r |-> Junk], "r", "a")["r"]
CnegOf(x, neg) == gfp_cneg([a |-> x, r |-> Junk], "r", "a", neg)["r"]

FieldOps == {"add", "sub", "cneg", "hlv", "mul", "sqr", "mul32"}
Produced ==
    /\ pc = "returned"
    /\ \/ call.op \in FieldOps
       \/ call.op = "inv" /\ call.ret = M25519_NO_ERROR

\* C1: whatever the operands in [0, 2^256-1], neg and the scalar, the result
\* written by gfp_add, gfp_sub, gfp_cneg, gfp_hlv, gfp_mul, gfp_sqr, gfp_mul32
\* and by a successful gfp_inv is below 2p; this holds as well when the
\* operand is the result of the operations before (calls in place on r).
C1_OutputTight == Produced => NatLt(Res, TwoPNat)

\* A second in-place gfp_mul whose operand, the result of the call before,
\* is not below p.
C1_Witness ==
    /\ Returned("mul") /\ call.ap = "r" /\ budget + 2 <= MaxChain
    /\ NatLe(PNat, ArgA)
    /\ NatLt(Res, TwoPNat)

\* C2: for every a in [0, 2^256-1], a >= 2p included, gfp_fred writes the
\* least non-negative residue of a modulo p: r < p and r = a mod p.
C2_FredCanonical ==
    Returned("fred") =>
        /\ NatLt(Res, PNat)
        /\ NatEq(Res, NatMod(ArgA, PNat))
        /\ NatEq(Res, ModP(ArgA))

C2_Witness ==
    /\ Returned("fred") /\ pre["a"] = MaxElem
    /\ NatLe(TwoPNat, ArgA)
    /\ NatEq(Res, NatInt(2 * CONSTC - 1))

\* C3: gfp_add adds in GF(p): r is congruent to a + b modulo p, that is
\* fred(r) = (a + b) mod p; and fred(add(p - 1, 1)) = 0.
C3_AddCongruent ==
    Returned("add") =>
        LET want == ModP(NatAdd(ArgA, ArgB))
        IN  /\ NatEq(ModP(Res), want)
            /\ NatEq(FredOf(mem[call.rp]), want)
            /\ (pre[call.ap] = PMinus1Elem /\ pre[call.bp] = OneElem
                    => FredOf(mem[call.rp]) = NatOf(ZeroElem))

C3_Witness ==
    /\ Returned("add")
    /\ pre[call.ap] = PMinus1Elem /\ pre[call.bp] = OneElem
    /\ FredOf(mem[call.rp]) = NatOf(ZeroElem)

\* C4: gfp_sub subtracts in GF(p), also when a < b: r is congruent to a - b
\* modulo p, that is fred(r) = (a - b) mod p; and fred(sub(0, 1)) = p - 1.
C4_SubCongruent ==
    Returned("sub") =>
        LET want == ModP(NatSub(NatAdd(ArgA, FourPNat), ArgB))
        IN  /\ NatEq(ModP(Res), want)
            /\ NatEq(FredOf(mem[call.rp]), want)
            /\ (pre[call.ap] = ZeroElem /\ pre[call.bp] = OneElem
                    => FredOf(mem[call.rp]) = NatOf(PMinus1Elem))

C4_Witness ==
    /\ Returned("sub")
    /\ pre[call.ap] = ZeroElem /\ pre[call.bp] = OneElem
    /\ NatLt(ArgA, ArgB)
    /\ FredOf(mem[call.rp]) = NatOf(PMinus1Elem)

\* C5: gfp_mul multiplies in GF(p): r is congruent to a * b modulo p, that is
\* fred(r) = (a * b) mod p; and mul(a, 1) is congruent to a.
C5_MulCongruent ==
    Returned("mul") =>
        LET want == ModP(NatMul(ArgA, ArgB))
        IN  /\ NatEq(ModP(Res), want)
            /\ NatEq(FredOf(mem[call.rp]), want)
            /\ (pre[call.bp] = OneElem => NatEq(ModP(Res), ModP(ArgA)))

C5_Witness ==
    /\ Returned("mul")
    /\ pre[call.bp] = OneElem
    /\ NatLe(TwoPNat, ArgA)
    /\ NatEq(ModP(Res), ModP(ArgA))

\* C6: gfp_sqr(a) is congruent to gfp_mul(a, a) modulo p:
\* fred(sqr(a)) = fred(mul(a, a)) = a^2 mod p.
C6_SqrIsMul ==
    Returned("sqr") =>
        /\ FredOf(mem[call.rp]) = FredOf(MulOf(pre[call.ap], pre[call.ap]))
        /\ NatEq(FredOf(mem[call.rp]), ModP(NatMul(ArgA, ArgA)))

C6_Witness ==
    /\ Returned("sqr")
    /\ NatLe(TwoPNat, ArgA)
    /\ FredOf(mem[call.rp]) = FredOf(MulOf(pre[call.ap], pre[call.ap]))

\* C7: for every scalar word k, gfp_mul32(a, [k]) is congruent modulo p to
\* a * k and to gfp_mul(a, [k, 0, ..., 0]); and fred(mul32(9, 121666)) is
\* 1094994.
C7_Mul32Consistent ==
    Returned("mul32") =>
        LET k == pre[call.bp][1]
        IN  /\ NatEq(ModP(Res), ModP(NatMul(ArgA, k)))
            /\ NatEq(ModP(Res), ModP(NatOf(MulOf(pre[call.ap], WordsOf(k, LEN)))))
            /\ (pre[call.ap] = Elem(9) /\ k = Cast(121666, WordLimbs)
                    => FredOf(mem[call.rp]) = NatOf(Elem(1094994)))

C7_Witness ==
    /\ Returned("mul32")
    /\ pre[call.ap] = Elem(9) /\ pre[call.bp][1] = Cast(121666, WordLimbs)
    /\ FredOf(mem[call.rp]) = NatOf(Elem(1094994))

\* C8: gfp_hlv writes the exact integer a / 2 for even a and (a + p) / 2 for
\* odd a; so 2 * r is congruent to a modulo p, and hlv(add(a, a)) is
\* congruent to a.
C8_HlvExact ==
    Returned("hlv") =>
        /\ (NatIsEven(ArgA) => NatEq(Res, NatHalf(ArgA)))
        /\ (~NatIsEven(ArgA) => NatEq(Res, NatHalf(NatAdd(ArgA, PNat))))
        /\ NatEq(ModP(NatAdd(Res, Res)), ModP(ArgA))
        /\ NatEq(ModP(NatOf(HlvOf(AddOf(pre[call.ap], pre[call.ap])))), ModP(ArgA))

C8_Witness ==
    /\ Returned("hlv")
    /\ ~NatIsEven(ArgA) /\ NatLt(ArgA, NatInt(CONSTC))
    /\ NatEq(Res, NatHalf(NatAdd(ArgA, PNat)))

\* C9: gfp_cneg negates modulo p when the least significant bit of neg is 1
\* and keeps the residue otherwise, whatever the other bits of neg; so
\* add(a, cneg(a, 1)) is congruent to 0 and cneg(cneg(a, 1), 1) to a.
C9_CnegByLsb ==
    Returned("cneg") =>
        LET x == pre[call.ap]
        IN  /\ (call.neg % 2 = 1 => NatEq(ModP(Res), ModP(NatSub(FourPNat, ArgA))))
            /\ (call.neg % 2 = 0 => NatEq(ModP(Res), ModP(ArgA)))
            /\ mem[call.rp] = CnegOf(x, call.neg % 2)
            /\ NatEq(ModP(NatOf(AddOf(x, CnegOf(x, 1)))), NatInt(0))
            /\ NatEq(ModP(NatOf(CnegOf(CnegOf(x, 1), 1))), ModP(ArgA))

C9_Witness ==
    /\ Returned("cneg")
    /\ call.neg = 0 - 1
    /\ ~NatEq(ModP(ArgA), NatInt(0))
    /\ NatEq(ModP(NatAdd(Res, ArgA)), NatInt(0))

\* C10: for every a in [0, 2^256-1] not congruent to 0 modulo p, gfp_inv
\* returns 0 and writes r with a * r congruent to 1:
\* fred(gfp_mul(a, r)) = [1, 0, ..., 0].
C10_InverseLaw ==
    Returned("inv") /\ ~NatEq(ModP(ArgA), NatInt(0)) =>
        /\ call.ret = M25519_NO_ERROR
        /\ FredOf(MulOf(pre[call.ap], mem[call.rp])) = NatOf(OneElem)
        /\ NatEq(ModP(NatMul(ArgA, Res)), NatInt(1))

C10_Witness ==
    /\ Returned("inv")
    /\ NatLe(PNat, ArgA) /\ ~NatEq(ModP(ArgA), NatInt(0))
    /\ call.ret = M25519_NO_ERROR
    /\ FredOf(MulOf(pre[call.ap], mem[call.rp])) = NatOf(OneElem)

\* C11: gfp_inv returns M25519_ERR_INVERS, a non-zero code, exactly when its
\* operand is congruent to 0 modulo p (0, p and 2p), and M25519_NO_ERROR for
\* every other operand.
C11_InvErrorIffZero ==
    Returned("inv") =>
        /\ M25519_ERR_INVERS # 0
        /\ call.ret \in {M25519_NO_ERROR, M25519_ERR_INVERS}
        /\ (call.ret = M25519_ERR_INVERS <=> NatEq(ModP(ArgA), NatInt(0)))
        /\ (call.ret = M25519_ERR_INVERS
                <=> pre[call.ap] \in {ZeroElem, WordsOf(PNat, LEN), WordsOf(TwoPNat, LEN)})

\* gfp_inv of 2p, which takes two subtractions of p to become 0.
C11_Witness ==
    /\ Returned("inv")
    /\ pre[call.ap] = WordsOf(TwoPNat, LEN)
    /\ call.ret = M25519_ERR_INVERS

\* C12, as claimed: when gfp_inv returns M25519_ERR_INVERS the result buffer
\* r holds the words it held before the call.
C12_ErrorKeepsResult ==
    Returned("inv") /\ call.ret = M25519_ERR_INVERS => mem[call.rp] = pre[call.rp]

\* C12, amended: when gfp_inv returns M25519_ERR_INVERS the result buffer r
\* holds eight zero words, whatever it held before: r is the working variable
\* x2, which is set to 0 before the operand is tested.
C12_ErrorClearsResult ==
    Returned("inv") /\ call.ret = M25519_ERR_INVERS => mem[call.rp] = ZeroElem

\* gfp_inv of p has failed and has replaced the caller's words in r by zeros.
C12_Witness ==
    /\ Returned("inv") /\ call.ret = M25519_ERR_INVERS
    /\ pre[call.ap] = WordsOf(PNat, LEN)
    /\ pre[call.rp] = Junk /\ Junk # ZeroElem
    /\ mem[call.rp] = ZeroElem

\* C13: gfp_cmp(a, b) is the sign of fred(a) - fred(b): 1, 0 or -1 as the
\* least non-negative residue of a is greater than, equal to or less than
\* that of b; so it is 0 exactly when a and b are congruent modulo p, also
\* for two different encodings of one residue.
C13_CmpConsistent ==
    Returned("cmp") =>
        LET ra == ModP(ArgA)
            rb == ModP(ArgB)
        IN  /\ call.ret \in {0 - 1, 0, 1}
            /\ (call.ret = 1 <=> NatLt(rb, ra))
            /\ (call.ret = 0 - 1 <=> NatLt(ra, rb))
            /\ (call.ret = 0 <=> NatEq(ra, rb))
            /\ (call.ret = 1 <=> NatLt(FredOf(pre[call.bp]), FredOf(pre[call.ap])))
            /\ (call.ret = 0 - 1 <=> NatLt(FredOf(pre[call.ap]), FredOf(pre[call.bp])))

\* gfp_cmp of x + p and x, two encodings of the same residue, is 0.
C13_Witness ==
    /\ Returned("cmp")
    /\ pre[call.ap] # pre[call.bp]
    /\ NatEq(ArgA, NatAdd(ArgB, PNat))
    /\ call.ret = 0

\* C14: gfp_cmpp compares the 256-bit integer a as it is, without reducing
\* it, with p: it returns 1 if a > p, 0 if a = p and -1 if a < p; so it
\* returns 0 for the value that gfp_setp writes.
C14_CmppRaw ==
    Returned("cmpp") =>
        /\ call.ret \in {0 - 1, 0, 1}
        /\ (call.ret = 1 <=> NatLt(PNat, ArgA))
        /\ (call.ret = 0 <=> NatEq(ArgA, PNat))
        /\ (call.ret = 0 - 1 <=> NatLt(ArgA, PNat))
        /\ (pre[call.ap] = gfp_setp([r |-> Junk], "r")["r"] => call.ret = 0)

\* gfp_cmpp of the value written by gfp_setp.
C14_Witness ==
    /\ Returned("cmpp") /\ call.ap = "r"
    /\ pre[call.ap] = gfp_setp([r |-> Junk], "r")["r"]
    /\ NatEq(ArgA, PNat)
    /\ call.ret = 0

\* The call that has returned writes r over one of its operands.
Aliased == pc = "returned" /\ call.rp \in {call.ap, call.bp}
\* The same call on the same operand values with a result buffer of its own:
\* the words it writes to r and the value it returns.
DisjointCall ==
    LET x  == pre[call.ap]
        m1 == [a |-> x, r |-> Junk]
        m2 == [a |-> x, b |-> IF call.bp = "-" THEN x ELSE pre[call.bp], r |-> Junk]
    IN  CASE call.op = "add"   -> [r |-> gfp_add(m2, "r", "a", "b")["r"], ret |-> 0]
          [] call.op = "sub"   -> [r |-> gfp_sub(m2, "r", "a", "b")["r"], ret |-> 0]
          [] call.op = "mul"   -> [r |-> gfp_mul(m2, "r", "a", "b")["r"], ret |-> 0]
          [] call.op = "mul32" -> [r |-> gfp_mul32(m2, "r", "a", "b")["r"], ret |-> 0]
          [] call.op = "sqr"   -> [r |-> gfp_sqr(m1, "r", "a")["r"], ret |-> 0]
          [] call.op = "hlv"   -> [r |-> gfp_hlv(m1, "r", "a")["r"], ret |-> 0]
          [] call.op = "cneg"  -> [r |-> gfp_cneg(m1, "r", "a", call.neg)["r"], ret |-> 0]
          [] call.op = "fred"  -> [r |-> gfp_fred(m1, "r", "a")["r"], ret |-> 0]
          [] call.op = "inv"   -> LET v == gfp_inv(m1, "r", "a")
                                  IN  [r |-> v.mem["r"], ret |-> v.ret]

\* C15: gfp_add, gfp_sub, gfp_cneg, gfp_hlv, gfp_mul, gfp_sqr, gfp_mul32,
\* gfp_fred and gfp_inv called with r aliased to a, to b or to both write the
\* same eight words, and return the same value, as the call on the same
\* operand values with r disjoint from the operands.
C15_AliasingPermitted ==
    Aliased /\ call.op \in FieldOps \cup {"fred", "inv"} =>
        /\ mem[call.rp] = DisjointCall.r
        /\ call.ret = DisjointCall.ret

\* gfp_mul(a, a, a) with r = a = b has replaced a by the product.
C15_Witness ==
    /\ Returned("mul") /\ call.rp = call.ap /\ call.bp = call.ap
    /\ pre[call.ap] = Sample(3)
    /\ mem[call.rp] # pre[call.rp]
    /\ mem[call.rp] = MulOf(pre[call.ap], pre[call.ap])

\* The sign of x - y for natural numbers x and y.
NatSign(x, y) == IF NatLt(y, x) THEN 1 ELSE IF NatLt(x, y) THEN 0 - 1 ELSE 0

\* C17: mpi_cmpw compares the len-word integer a with the word b, taken as
\* [0, ..., 0, b]: it returns 1 if a > b, 0 if a = b and -1 if a < b.
C17_CmpwThreeWay ==
    Returned("mpi_cmpw") => call.ret = NatSign(ArgA, call.w)

\* C18: for 1 <= len <= 32, mpi_cmp compares two len-word integers: it
\* returns 1 if a > b, 0 if a = b and -1 if a < b, the most significant word
\* in which they differ deciding; and its loop runs over all len words,
\* whatever the words are.
C18_CmpThreeWay ==
    Returned("mpi_cmp") =>
        /\ call.len \in 1..WSIZE
        /\ call.ret = NatSign(ArgA, ArgB)
        /\ mpi_cmp_loop([i |-> call.len - 1, lt |-> Zero(WordLimbs), gt |-> Zero(WordLimbs)],
                        pre[call.ap], pre[call.bp]).i = 0 - 1

\* Two integers of 32 words: a is greater in the most significant word and
\* smaller in the least significant one.
C18_Witness ==
    /\ Returned("mpi_cmp") /\ call.len = WSIZE
    /\ ULt(pre[call.bp][WSIZE], pre[call.ap][WSIZE])
    /\ ULt(pre[call.ap][1], pre[call.bp][1])
    /\ call.ret = 1

\* The natural number 2^(WSIZE * n), the modulus of n-word arithmetic.
WrapNat(n) == UShl(Cast(1, WordLimbs * n + 1), WSIZE * n)

\* C19: mpi_sub writes the difference modulo 2^(32 * len) and returns the
\* borrow: r = a - b and 0 when a >= b, r = 2^(32 * len) + a - b and 1 when
\* a < b.
C19_SubWraps ==
    Returned("mpi_sub") =>
        /\ Len(mem[call.rp]) = call.len
        /\ call.ret = (IF NatLt(ArgA, ArgB) THEN 1 ELSE 0)
        /\ NatEq(NatAdd(Res, ArgB),
                 IF NatLt(ArgA, ArgB) THEN NatAdd(ArgA, WrapNat(call.len)) ELSE ArgA)

\* 0 - 1 on the longest integers: all words of r are 2^32 - 1, the borrow is 1.
C19_Witness ==
    /\ Returned("mpi_sub") /\ call.len = MaxMpiLen
    /\ NatEq(ArgA, NatInt(0)) /\ NatEq(ArgB, NatInt(1))
    /\ mem[call.rp] = MpiSample(2, call.len)
    /\ call.ret = 1

\* C20: with c the least significant bit of the condition value add, mpi_cadd
\* writes (a + c * b) modulo 2^(32 * len) and returns the carry, 0 or 1; so
\* add = 2 gives r = a, and with c = 1 the result and the return value are
\* those of mpi_add.
C20_CaddByLsb ==
    Returned("mpi_cadd") =>
        LET c     == call.add % 2
            m0    == [a |-> pre[call.ap], b |-> pre[call.bp], r |-> JunkOf(call.len)]
            carry == IF call.ret = 1 THEN WrapNat(call.len) ELSE NatInt(0)
        IN  /\ call.ret \in {0, 1}
            /\ NatEq(NatAdd(Res, carry), IF c = 1 THEN NatAdd(ArgA, ArgB) ELSE ArgA)
            /\ (c = 0 => mem[call.rp] = pre[call.ap] /\ call.ret = 0)
            /\ (c = 1 => LET v == mpi_add(m0, "r", "a", "b", call.len)
                         IN  mem[call.rp] = v.mem["r"] /\ call.ret = v.ret)

\* The condition value 2 with b # 0: nothing is added.
C20_Witness ==
    /\ Returned("mpi_cadd") /\ call.add = 2
    /\ ~NatEq(ArgB, NatInt(0))
    /\ mem[call.rp] = pre[call.ap]
    /\ call.ret = 0

(***************************************************************************)
(* The path of a call: the values of the loop counters at the exits of its *)
(* loops, in the order of the loops, each loop being run on the data the   *)
(* call runs it on.  The functions have no branch but the loop conditions, *)
(* and every array index is a loop counter plus a number fixed by LEN or   *)
(* len; so two calls with the same path execute the same statements on the *)
(* same indices.                                                           *)
(***************************************************************************)
AddPath(m, rp, ap, bp) ==
    LET sum0 == UAdd(ToDWord(rd(m, ap, LEN - 1)), ToDWord(rd(m, bp, LEN - 1)))
        sum1 == UMul(Cast(CONSTC, DWordLimbs),
                     ToDWord(ToWord(UShr(sum0, WSIZE - 1))), DWordLimbs)
    IN  <<gfp_add_loop([i |-> 0, mem |-> m, sum |-> sum1], rp, ap, bp).i>>

SubPath(m, rp, ap, bp) ==
    LET sum0 == USub(UAdd(FOURXPHI, ToDWord(rd(m, ap, LEN - 1))),
                     ToDWord(rd(m, bp, LEN - 1)))
        sum1 == UMul(Cast(CONSTC, DWordLimbs),
                     ToDWord(ToWord(SShr(sum0, WSIZE - 1))), DWordLimbs)
        sum2 == USub(sum1, Cast(CONSTC * 4, DWordLimbs))
    IN  <<gfp_sub_loop([i |-> 0, mem |-> m, sum |-> sum2], rp, ap, bp).i>>

CnegPath(m, rp, ap, neg) ==
    LET mask == USub(Zero(WordLimbs), Cast(neg % 2, WordLimbs))
        sum0 == UAdd(ToDWord(MIN4MASK), ToDWord(UXor(mask, rd(m, ap, LEN - 1))))
        sum1 == UMul(Cast(CONSTC, DWordLimbs),
                     ToDWord(ToWord(SShr(sum0, WSIZE - 1))), DWordLimbs)
        sum2 == USub(USub(sum1, Cast(CONSTC * 2, DWordLimbs)),
                     ToDWord(UAnd(mask, Cast(CONSTC * 2 - 1, WordLimbs))))
    IN  <<gfp_cneg_loop([i |-> 0, mem |-> m, sum |-> sum2], rp, ap, mask).i>>

HlvPath(m, rp, ap) ==
    LET mask == USub(Zero(WordLimbs), UAnd(rd(m, ap, 0), Cast(1, WordLimbs)))
        sum0 == USub(ToDWord(rd(m, ap, 0)),
                     ToDWord(UAnd(Cast(CONSTC, WordLimbs), mask)))
    IN  <<gfp_hlv_loop([i |-> 1, mem |-> m, tmp |-> ToWord(sum0),
                        sum |-> SShr(sum0, WSIZE)], rp, ap).i>>

ReducePath(m, rp, t) ==
    LET s1   == gfp_red1_loop([i |-> 0, t |-> t, prod |-> Zero(DWordLimbs)])
        prod == UAdd(s1.prod,
                     UAdd(UMul(ToDWord(at(s1.t, 2 * LEN - 1)),
                               Cast(CONSTC * 2, DWordLimbs), DWordLimbs),
                          ToDWord(at(s1.t, LEN - 1))))
        p2   == UMul(Cast(CONSTC, DWordLimbs), UShr(prod, WSIZE - 1), DWordLimbs)
    IN  <<s1.i, gfp_red2_loop([i |-> 0, mem |-> m, prod |-> p2], rp, s1.t).i>>

MulPath(m, rp, ap, bp) ==
    LET st0  == [j |-> 0, t |-> Local(2 * LEN), prod |-> Zero(DWordLimbs)]
        row0 == gfp_mul_row_loop(st0, m, ap, rd(m, bp, 0), 0, FALSE)
        rows == gfp_mul_rows([i |-> 1, t |-> gfp_mul_row(st0, m, ap, rd(m, bp, 0), 0, FALSE)],
                             m, ap, bp)
    IN  <<row0.j, rows.i>> \o ReducePath(m, rp, rows.t)

SqrPath(m, rp, ap) ==
    LET st0  == [j |-> 1, t |-> put(Local(2 * LEN), 0, Zero(WordLimbs)),
                 prod |-> Zero(DWordLimbs)]
        row0 == gfp_mul_row_loop(st0, m, ap, rd(m, ap, 0), 0, FALSE)
        rows == gfp_sqr_rows([i |-> 1, t |-> gfp_mul_row(st0, m, ap, rd(m, ap, 0), 0, FALSE)],
                             m, ap)
        dbl  == gfp_sqr_dbl([i |-> 0, t |-> rows.t, sum |-> Zero(DWordLimbs)], m, ap)
    IN  <<row0.j, rows.i, dbl.i>> \o ReducePath(m, rp, dbl.t)

Mul32Path(m, rp, ap, bp) ==
    LET st0  == [j |-> 0, t |-> Local(LEN + 1), prod |-> Zero(DWordLimbs)]
        row0 == gfp_mul_row_loop(st0, m, ap, rd(m, bp, 0), 0, FALSE)
        t    == gfp_mul_row(st0, m, ap, rd(m, bp, 0), 0, FALSE)
        p0   == UMul(Cast(CONSTC, DWordLimbs),
                     ToDWord(UShr(at(t, LEN - 1), WSIZE - 1)), DWordLimbs)
        p1   == UAdd(p0, UAdd(UMul(ToDWord(at(t, LEN)), Cast(CONSTC * 2, DWordLimbs),
                                   DWordLimbs),
                              ToDWord(at(t, 0))))
    IN  <<row0.j, gfp_mul32_loop([i |-> 1, mem |-> wr(m, rp, 0, ToWord(p1)),
                                  prod |-> UShr(p1, WSIZE)], rp, t).i>>

CaddPath(m, rp, ap, bp, add, len) ==
    LET mask == Cast(0 - (add % 2), WordLimbs)
    IN  <<mpi_cadd_loop([i |-> 0, mem |-> m, sum |-> Zero(DWordLimbs)],
                        rp, ap, bp, mask, len).i>>

SetpPath(m, rp) ==
    <<gfp_setp_loop([i |-> LEN - 2, mem |-> wr(m, rp, LEN - 1, MSB0MASK)], rp).i>>

\* rbit = mpi_sub(r, a, p, LEN); mpi_cadd(r, r, p, rbit, LEN);
RoundPath(m, rp, ap, pp) ==
    LET s == mpi_sub(m, rp, ap, pp, LEN)
    IN  <<mpi_sub_loop([i |-> 0, mem |-> m, dif |-> Cast(1, DWordLimbs)],
                       rp, ap, pp, LEN).i>>
        \o CaddPath(s.mem, rp, rp, pp, s.ret, LEN)

FredPath(m, rp, ap) ==
    LET m0 == gfp_setp(Alloc(m, "p", LEN), "p")
        m1 == gfp_fred_round(m0, rp, ap, "p")
    IN  SetpPath(Alloc(m, "p", LEN), "p") \o RoundPath(m0, rp, ap, "p")
        \o RoundPath(m1, rp, rp, "p")

CmpPath(m, ap, bp) ==
    LET l0 == Alloc(Alloc(Alloc(m, "p", LEN), "ar", LEN), "br", LEN)
        m0 == gfp_setp(l0, "p")
        m1 == gfp_fred_round(m0, "ar", ap, "p")
        m2 == gfp_fred_round(m1, "ar", "ar", "p")
        m3 == gfp_fred_round(m2, "br", bp, "p")
        m4 == gfp_fred_round(m3, "br", "br", "p")
    IN  SetpPath(l0, "p") \o RoundPath(m0, "ar", ap, "p") \o RoundPath(m1, "ar", "ar", "p")
        \o RoundPath(m2, "br", bp, "p") \o RoundPath(m3, "br", "br", "p")
        \o <<mpi_cmp_loop([i |-> LEN - 1, lt |-> Zero(WordLimbs), gt |-> Zero(WordLimbs)],
                          m4["ar"], m4["br"]).i>>

CmppPath(x) ==
    <<gfp_cmpp_loop([i |-> LEN - 2, lt |-> BoolWord(ULt(x[LEN], MSB0MASK)),
                     gt |-> BoolWord(ULt(MSB0MASK, x[LEN]))], x).i>>

\* The path of the call c on the memory m.
PathOf(m, c) ==
    CASE c.op = "add"      -> AddPath(m, c.rp, c.ap, c.bp)
      [] c.op = "sub"      -> SubPath(m, c.rp, c.ap, c.bp)
      [] c.op = "cneg"     -> CnegPath(m, c.rp, c.ap, c.neg)
      [] c.op = "hlv"      -> HlvPath(m, c.rp, c.ap)
      [] c.op = "mul"      -> MulPath(m, c.rp, c.ap, c.bp)
      [] c.op = "sqr"      -> SqrPath(m, c.rp, c.ap)
      [] c.op = "mul32"    -> Mul32Path(m, c.rp, c.ap, c.bp)
      [] c.op = "fred"     -> FredPath(m, c.rp, c.ap)
      [] c.op = "cmp"      -> CmpPath(m, c.ap, c.bp)
      [] c.op = "cmpp"     -> CmppPath(m[c.ap])
      [] c.op = "mpi_cadd" -> CaddPath(m, c.rp, c.ap, c.bp, c.add, c.len)

ConstantTimeOps ==
    {"add", "sub", "cneg", "hlv", "mul", "sqr", "mul32", "fred", "cmp", "cmpp", "mpi_cadd"}
\* The same call on operands of the same lengths whose words are all 0, with
\* the condition values 0.
ZeroMem == [q \in DOMAIN pre |-> Tup([i \in 1..Len(pre[q]) |-> Zero(WordLimbs)])]
ZeroCall ==
    IF call.op = "mpi_cadd" THEN [call EXCEPT !.add = 0] ELSE [call EXCEPT !.neg = 0]

\* C16: the path of a call of gfp_add, gfp_sub, gfp_cneg, gfp_hlv, gfp_mul,
\* gfp_sqr, gfp_mul32, gfp_fred, gfp_cmp, gfp_cmpp or mpi_cadd (the loop
\* iteration counts, hence the statements executed and the indices accessed)
\* is that of the same call on all-zero operands of the same length with the
\* condition 0: it is the same for any two inputs of the same length, and
\* depends neither on the words of the operands nor on the condition bit.
C16_ConstantPath ==
    pc = "returned" /\ call.op \in ConstantTimeOps =>
        PathOf(pre, call) = PathOf(ZeroMem, ZeroCall)

\* gfp_cmp of p - 1 and 0, which differ in the most significant word: the
\* comparison loop has run over all LEN words all the same.
C16_Witness ==
    /\ Returned("cmp")
    /\ pre[call.ap] = PMinus1Elem /\ pre[call.bp] = ZeroElem
    /\ PathOf(pre, call) = PathOf(ZeroMem, ZeroCall)
    /\ PathOf(pre, call)[Len(PathOf(pre, call))] = 0 - 1

\* C24: with an even neg (condition bit 0) gfp_cneg does not always write a
\* back: for every a in [0, 2^256-1] the integer written is a, a + p or
\* a - p, the last only for a > p.
C24_CnegZeroBit ==
    Returned("cneg") /\ call.neg % 2 = 0 =>
        \/ NatEq(Res, ArgA)
        \/ NatEq(Res, NatAdd(ArgA, PNat))
        \/ NatLt(PNat, ArgA) /\ NatEq(Res, NatSub(ArgA, PNat))

\* gfp_cneg with condition bit 0 that has not written its operand back:
\* a = 0 gives p.
C24_Witness ==
    /\ Returned("cneg") /\ call.neg % 2 = 0
    /\ ~NatEq(Res, ArgA)
    /\ NatEq(ArgA, NatInt(0)) /\ NatEq(Res, PNat)

\* The positions of gfp_inv inside its main loop (lines 592 to 610).
InvMainLoop == {"loop", "ueven", "veven", "odd"}
\* The calls of mpi_cmp made by gfp_inv: in its initial reduction with LEN
\* words, in its main loop with uvlen words.
InvCmpSite == pc \in {"reduce", "odd"}
InvCmpLen == IF pc = "odd" THEN uvlen ELSE LEN
\* The integer held by the n least significant words of the array arr.
LowNat(arr, n) == NatOf(SubSeq(arr, 1, n))

\* C30: the assertion len <= WSIZE of mpi_cmp holds at every call made by the
\* core: gfp_cmp calls it with LEN = 8 words, gfp_inv with LEN or with
\* uvlen <= LEN words; so no verdict bit is shifted out of lt and gt, and
\* the value returned is the sign of the difference of the two integers.
C30_CmpAssertion ==
    /\ LEN <= WSIZE
    /\ pc \in InvMainLoop => uvlen <= LEN /\ uvlen <= WSIZE
    /\ InvCmpSite =>
        /\ InvCmpLen \in 1..LEN
        /\ InvCmpLen <= WSIZE
        /\ mpi_cmp(mem["ux"], mem["vx"], InvCmpLen)
               = NatSign(LowNat(mem["ux"], InvCmpLen), LowNat(mem["vx"], InvCmpLen))
    /\ Returned("cmp") =>
        call.ret = NatSign(NatMod(ArgA, PNat), NatMod(ArgB, PNat))

\* gfp_inv about to compare ux and vx on fewer than LEN words, ux being the
\* smaller.
C30_Witness ==
    /\ pc = "odd" /\ uvlen < LEN /\ uvlen <= WSIZE
    /\ mpi_cmp(mem["ux"], mem["vx"], uvlen) = 0 - 1
    /\ NatLt(LowNat(mem["ux"], uvlen), LowNat(mem["vx"], uvlen))

\* The words of the array arr above its n least significant ones are 0.
ZeroAbove(arr, n) == \A i \in (n + 1)..Len(arr) : arr[i] = Zero(WordLimbs)

\* C27: in every state of the main loop of gfp_inv, 1 <= uvlen <= LEN and the
\* words of ux and vx at the indices uvlen and above are 0; so mpi_cmpw,
\* mpi_cmp, mpi_shr and the mpi_sub of the smaller from the greater give on
\* uvlen words what they give on all LEN words.
C27_ShrinkPreserves ==
    pc \in InvMainLoop =>
        /\ uvlen \in 1..LEN
        /\ ZeroAbove(mem["ux"], uvlen) /\ ZeroAbove(mem["vx"], uvlen)
        /\ \A w \in {"ux", "vx"} :
            /\ mpi_cmpw(mem[w], Cast(1, WordLimbs), uvlen)
                   = mpi_cmpw(mem[w], Cast(1, WordLimbs), LEN)
            /\ mpi_shr(mem, w, w, uvlen) = mpi_shr(mem, w, w, LEN)
        /\ mpi_cmp(mem["ux"], mem["vx"], uvlen) = mpi_cmp(mem["ux"], mem["vx"], LEN)
        /\ IF mpi_cmp(mem["ux"], mem["vx"], uvlen) >= 0
           THEN mpi_sub(mem, "ux", "ux", "vx", uvlen) = mpi_sub(mem, "ux", "ux", "vx", LEN)
           ELSE mpi_sub(mem, "vx", "vx", "ux", uvlen) = mpi_sub(mem, "vx", "vx", "ux", LEN)

\* The main loop at a subtraction with a length shrunk to one word, while
\* neither ux nor vx is 1 yet.
C27_Witness ==
    /\ pc = "odd" /\ uvlen = 1
    /\ ZeroAbove(mem["ux"], 1) /\ ZeroAbove(mem["vx"], 1)
    /\ mem["ux"][1] # Cast(1, WordLimbs) /\ mem["vx"][1] # Cast(1, WordLimbs)


(***************************************************************************)
(* The inversion's loop invariant.                                         *)
(***************************************************************************)
\* One step of the binary gcd of two naturals of equal length: a common
\* factor two is recorded, an even number is halved, and the smaller of two
\* odd numbers is taken from the larger one.
NatGcdStep(s) ==
    IF NatIsEven(s.u) /\ NatIsEven(s.v)
    THEN [u |-> NatHalf(s.u), v |-> NatHalf(s.v), two |-> TRUE]
    ELSE IF NatIsEven(s.u) THEN [s EXCEPT !.u = NatHalf(s.u)]
    ELSE IF NatIsEven(s.v) THEN [s EXCEPT !.v = NatHalf(s.v)]
    ELSE IF ULt(s.u, s.v) THEN [s EXCEPT !.v = USub(s.v, s.u)]
    ELSE [s EXCEPT !.u = USub(s.u, s.v)]

NatGcdDone(s) == s.u = Zero(Len(s.u)) \/ s.v = Zero(Len(s.v))

RECURSIVE NatGcdRun(_, _, _)
NatGcdRun(s, n, lvl) ==
    IF n = 0 \/ NatGcdDone(s) THEN s
    ELSE NatGcdRun(IF lvl = 0 THEN NatGcdStep(s) ELSE NatGcdRun(s, InvChunk, lvl - 1),
                   n - 1, lvl)

NatGcdIsOne(s) == NatGcdDone(s) /\ ~s.two /\ NatEq(NatAdd(s.u, s.v), NatInt(1))

\* gcd(x, y) = 1, for x and y of equal length.
NatCoprime(x, y) == NatGcdIsOne(NatGcdRun([u |-> x, v |-> y, two |-> FALSE], InvChunk, 2))

InvA == NatOf(pre[call.ap])
InvUx == NatOf(mem["ux"])
InvVx == NatOf(mem["vx"])
InvX1 == NatOf(mem["x1"])
InvX2 == NatOf(mem[call.rp])
InvCompanion == IF NatEq(InvUx, NatInt(1)) THEN InvX1 ELSE InvX2

\* C29: in the main loop of gfp_inv, that is after the initial reduction of
\* an operand that is not a multiple of p and after every halving and every
\* subtraction step, x1 * a = ux and x2 * a = vx modulo p, ux and vx are
\* coprime and at most p, and x1 and x2 are below 2p; when the loop ends the
\* companion of whichever of ux and vx is 1 (x1 for ux, otherwise x2) is the
\* inverse of a.
C29_InvInvariant ==
    pc \in InvMainLoop =>
        /\ ModP(NatMul(InvX1, InvA)) = ModP(InvUx)
        /\ ModP(NatMul(InvX2, InvA)) = ModP(InvVx)
        /\ ZeroAbove(mem["ux"], uvlen) /\ ZeroAbove(mem["vx"], uvlen)
        /\ NatCoprime(LowNat(mem["ux"], uvlen), LowNat(mem["vx"], uvlen))
        /\ NatLe(InvUx, PNat) /\ NatLe(InvVx, PNat)
        /\ NatLt(InvX1, TwoPNat) /\ NatLt(InvX2, TwoPNat)
        /\ pc = "loop" /\ ~inv_continue(mem, uvlen) =>
            /\ NatEq(InvUx, NatInt(1)) \/ NatEq(InvVx, NatInt(1))
            /\ ModP(NatMul(InvCompanion, InvA)) = NatMod(NatInt(1), PNat)

\* A subtraction step has been taken, both numbers are still above 1 and the
\* companions are no longer the initial 1 and 0.
C29_Witness ==
    /\ pc = "loop" /\ inv_continue(mem, uvlen)
    /\ ~NatEq(InvX1, NatInt(1)) /\ ~NatEq(InvX2, NatInt(0))
    /\ NatLt(InvUx, PNat) /\ NatLt(InvVx, PNat)
    /\ ModP(NatMul(InvX1, InvA)) = ModP(InvUx)


\* 2^CONSTK.
TwoToK == NatAdd(PNat, NatInt(CONSTC))

\* C28 as stated: at the boundaries of the main-loop iterations of gfp_inv,
\* ux * a = x1 * 2^k and vx * a = x2 * 2^k modulo p, with k = CONSTK.
C28_ScaledInvariant ==
    pc = "loop" =>
        /\ ModP(NatMul(InvUx, InvA)) = ModP(NatMul(InvX1, TwoToK))
        /\ ModP(NatMul(InvVx, InvA)) = ModP(NatMul(InvX2, TwoToK))

\* C28, amended: gfp_inv starts from (ux, vx, x1, x2) = (a, p, 1, 0), and at
\* the boundaries of the main-loop iterations ux = x1 * a and vx = x2 * a
\* modulo p, with no power of two.
C28_LoopBoundary ==
    /\ pc = "reduce" =>
        /\ ModP(InvUx) = ModP(InvA)
        /\ NatEq(InvVx, PNat) /\ NatEq(InvX1, NatInt(1)) /\ NatEq(InvX2, NatInt(0))
    /\ pc = "loop" =>
        /\ ModP(InvUx) = ModP(NatMul(InvX1, InvA))
        /\ ModP(InvVx) = ModP(NatMul(InvX2, InvA))

\* An iteration boundary after the first, where the unscaled relation holds
\* for ux and the scaled one does not.
C28_Witness ==
    /\ pc = "loop" /\ uvlen < LEN
    /\ ~NatEq(InvX1, NatInt(1))
    /\ ModP(InvUx) = ModP(NatMul(InvX1, InvA))
    /\ ModP(NatMul(InvUx, InvA)) # ModP(NatMul(InvX1, TwoToK))


(***************************************************************************)
(* Termination of the inversion.                                           *)
(***************************************************************************)
InvRunning == pc \in {"reduce"} \cup InvMainLoop

\* A step of a running gfp_inv.
InvSteps ==
    \/ InvReduce \/ InvZero \/ InvNonZero \/ InvLoop \/ InvHalveU \/ InvOddU
    \/ InvHalveV \/ InvOddV \/ InvSubU \/ InvSubV \/ InvReturn

\* A called function runs to completion: gfp_inv has no suspension point, so
\* while it is running its next statement is eventually executed.  This is
\* weak fairness of InvSteps, WF_vars(InvSteps), with the enabling condition
\* of <<InvSteps>>_vars written out: exactly one of the steps is possible at
\* each position of a running gfp_inv, and it changes the state (InvNoStall).
InvFair == []<>(~InvRunning) \/ []<><<InvSteps>>_vars
LiveSpec == Spec /\ InvFair

\* The next statement of a running gfp_inv changes the state: the loops that
\* stay at their position subtract a non-zero vx or halve a non-zero ux or vx.
InvNoStall ==
    /\ pc = "reduce" /\ mpi_cmp(mem["ux"], mem["vx"], LEN) >= 0 =>
        mpi_sub(mem, "ux", "ux", "vx", LEN).mem # mem
    /\ pc = "ueven" /\ inv_even(mem, "ux") => inv_halve(mem, "ux", "x1", uvlen) # mem
    /\ pc = "veven" /\ inv_even(mem, "vx") => inv_halve(mem, "vx", call.rp, uvlen) # mem

\* The reduction loop has subtracted p from a at most twice, and after two
\* subtractions it is over.
InvReduceBounded ==
    \/ NatEq(InvUx, InvA)
    \/ NatEq(NatAdd(InvUx, PNat), InvA)
    \/ NatEq(NatAdd(InvUx, TwoPNat), InvA) /\ mpi_cmp(mem["ux"], mem["vx"], LEN) < 0

C23_Safe ==
    /\ InvNoStall
    /\ pc = "reduce" => InvReduceBounded
    /\ pc \in {"ueven", "veven"} =>
        ~NatEq(InvUx, NatInt(0)) /\ ~NatEq(InvVx, NatInt(0))
    /\ pc = "loop" /\ ~inv_continue(mem, uvlen) =>
        NatEq(InvUx, NatInt(1)) \/ NatEq(InvVx, NatInt(1))

\* C23: gfp_inv terminates for every a: the reduction loop subtracts p at
\* most twice, ux and vx are not 0 when a halving loop is entered, the main
\* loop ends with ux = 1 or vx = 1, and every running inversion returns.
C23_Terminates == []C23_Safe /\ (InvRunning ~> Returned("inv"))

\* An inversion of an operand of at least 2p that is not a multiple of p has
\* returned its result.
C23_Witness ==
    /\ Returned("inv") /\ call.ret = M25519_NO_ERROR
    /\ NatLt(TwoPNat, ArgA)


(***************************************************************************)
(* The two formulations of the subtraction and of the conditional          *)
(* negation.                                                               *)
(***************************************************************************)
\* The sums of gfp_sub and gfp_sub_v2 computed again in an accumulator that
\* is one limb wider than a DWord, where they can neither overflow nor wrap.
WideLimbs == DWordLimbs + 1
Wide(x) == Resize(x, WideLimbs)
\* A wide sum that is the sign extension (zero extension) of its low DWord.
FitsSigned(x) == x[WideLimbs] = (IF x[DWordLimbs] >= Base \div 2 THEN Base - 1 ELSE 0)
FitsUnsigned(x) == x[WideLimbs] = 0

RECURSIVE SubWideLoop(_, _, _)
SubWideLoop(st, a, b) ==
    IF st.i < LEN - 1
    THEN LET s == UAdd(st.sum, USub(Wide(a[st.i + 1]), Wide(b[st.i + 1])))
         IN  SubWideLoop([i |-> st.i + 1, sum |-> SShr(s, WSIZE),
                          sums |-> st.sums \o <<s, SShr(s, WSIZE)>>,
                          r |-> Append(st.r, ToWord(s))], a, b)
    ELSE st

SubWide(a, b) ==
    LET sum0 == USub(UAdd(Wide(FOURXPHI), Wide(a[LEN])), Wide(b[LEN]))
        msw  == UAnd(ToWord(sum0), MSB0MASK)
        sum1 == UMul(Cast(CONSTC, WideLimbs), Wide(ToWord(SShr(sum0, WSIZE - 1))), WideLimbs)
        sum2 == USub(sum1, Cast(CONSTC * 4, WideLimbs))
        lp   == SubWideLoop([i |-> 0, sum |-> sum2, sums |-> <<sum0, sum1, sum2>>,
                             r |-> <<>>], a, b)
    IN  [sums |-> lp.sums,
         r    |-> Append(lp.r, UAdd(UAdd(msw, ToWord(lp.sum)), Cast(4, WordLimbs)))]

RECURSIVE SubV2WideLoop(_, _, _)
SubV2WideLoop(st, a, b) ==
    IF st.i < LEN - 1
    THEN LET s == UAdd(st.sum, USub(UAdd(Wide(FOURXPMI), Wide(a[st.i + 1])),
                                    Wide(b[st.i + 1])))
         IN  SubV2WideLoop([i |-> st.i + 1, sum |-> UShr(s, WSIZE),
                            sums |-> st.sums \o <<s, UShr(s, WSIZE)>>,
                            r |-> Append(st.r, ToWord(s))], a, b)
    ELSE st

SubV2Wide(a, b) ==
    LET sum0 == USub(UAdd(Wide(FOURXPHI), Wide(a[LEN])), Wide(b[LEN]))
        msw  == UAnd(ToWord(sum0), MSB0MASK)
        sum1 == UMul(Cast(CONSTC, WideLimbs), Wide(ToWord(UShr(sum0, WSIZE - 1))), WideLimbs)
        sum2 == UAdd(sum1, USub(UAdd(Wide(FOURXPLO), Wide(a[1])), Wide(b[1])))
        lp   == SubV2WideLoop([i |-> 1, sum |-> UShr(sum2, WSIZE),
                               sums |-> <<sum0, sum1, sum2, UShr(sum2, WSIZE)>>,
                               r |-> <<ToWord(sum2)>>], a, b)
    IN  [sums |-> lp.sums, r |-> Append(lp.r, UAdd(msw, ToWord(lp.sum)))]

AllFitSigned(sums) == \A k \in 1..Len(sums) : FitsSigned(sums[k])
AllFitUnsigned(sums) == \A k \in 1..Len(sums) : FitsUnsigned(sums[k])

\* C25: gfp_sub and gfp_sub_v2 write the same 8 words for the same operands,
\* and no sum of either overflows its 64 bits: every sum of gfp_sub is a
\* signed DWord and every sum of gfp_sub_v2 an unsigned one.
C25_SubSameWords ==
    Returned("sub_v2") =>
        /\ mem["r2"] = mem["r"]
        /\ SubWide(pre["a"], pre["b"]).r = mem["r"]
        /\ SubV2Wide(pre["a"], pre["b"]).r = mem["r2"]
        /\ AllFitSigned(SubWide(pre["a"], pre["b"]).sums)
        /\ AllFitUnsigned(SubV2Wide(pre["a"], pre["b"]).sums)

\* A difference below 0, where a sum of gfp_sub is negative, written alike by
\* both.
C25_Witness ==
    /\ Returned("sub_v2") /\ NatLt(ArgA, ArgB) /\ mem["r2"] = mem["r"]
    /\ mem["r"] # mem["a"]
    /\ \E k \in 1..Len(SubWide(pre["a"], pre["b"]).sums) :
        SubWide(pre["a"], pre["b"]).sums[k][WideLimbs] = Base - 1

\* The word that gfp_cneg and gfp_cneg_v2 add to their bias of the most
\* significant word, without its top bit.
CnegTop == UAnd(UXor(USub(Zero(WordLimbs), Cast(call.neg % 2, WordLimbs)), pre["a"][LEN]),
                MSB0MASK)
CnegSplit == CnegTop \in {Cast(2, WordLimbs), Cast(3, WordLimbs)}

\* C26 as stated: gfp_cneg_v2 writes the same 8 words as gfp_cneg.
C26_CnegSameWords == Returned("cneg_v2") => mem["r2"] = mem["r"]

\* C26, amended: gfp_cneg_v2 writes the same field element as gfp_cneg, both
\* below 2p; the 8 words are the same unless the word added to the bias of
\* the most significant word ends in 2 or 3 (31 bits), where gfp_cneg writes
\* p more than gfp_cneg_v2.
C26_CnegSameElement ==
    Returned("cneg_v2") =>
        /\ ModP(NatOf(mem["r2"])) = ModP(NatOf(mem["r"]))
        /\ NatLt(NatOf(mem["r"]), TwoPNat) /\ NatLt(NatOf(mem["r2"]), TwoPNat)
        /\ IF CnegSplit
           THEN NatEq(NatOf(mem["r"]), NatAdd(NatOf(mem["r2"]), PNat))
           ELSE mem["r2"] = mem["r"]

C26_Witness ==
    /\ Returned("cneg_v2") /\ call.neg % 2 = 1 /\ CnegSplit
    /\ mem["r2"] # mem["r"]
    /\ NatEq(NatOf(mem["r"]), NatAdd(NatOf(mem["r2"]), PNat))


(***************************************************************************)
(* The frame of a call: what it reads, what it writes.                     *)
(***************************************************************************)
MpiWriteOps == {"mpi_setw", "mpi_copy", "mpi_add", "mpi_cadd", "mpi_shr", "mpi_sub", "mpi_mul"}
WriteOps == FieldOps \cup {"fred", "inv", "setp"} \cup MpiWriteOps
CompareOps == {"cmp", "cmpp", "mpi_cmp", "mpi_cmpw"}

\* The number of words of r the call is to write.
Written ==
    IF call.op = "mpi_mul" THEN 2 * call.len
    ELSE IF call.op \in MpiWriteOps THEN call.len ELSE LEN

\* The memory before the call with another content of r, one word longer.
Scrubbed ==
    [pre EXCEPT ![call.rp] = Tup([i \in 1..(Len(@) + 1) |-> Cast(i, WordLimbs)])]

\* The call once more, on the memory m.
Rerun(m) ==
    CASE call.op = "add"      -> [mem |-> gfp_add(m, call.rp, call.ap, call.bp), ret |-> 0]
      [] call.op = "sub"      -> [mem |-> gfp_sub(m, call.rp, call.ap, call.bp), ret |-> 0]
      [] call.op = "mul"      -> [mem |-> gfp_mul(m, call.rp, call.ap, call.bp), ret |-> 0]
      [] call.op = "mul32"    -> [mem |-> gfp_mul32(m, call.rp, call.ap, call.bp), ret |-> 0]
      [] call.op = "sqr"      -> [mem |-> gfp_sqr(m, call.rp, call.ap), ret |-> 0]
      [] call.op = "hlv"      -> [mem |-> gfp_hlv(m, call.rp, call.ap), ret |-> 0]
      [] call.op = "cneg"     -> [mem |-> gfp_cneg(m, call.rp, call.ap, call.neg), ret |-> 0]
      [] call.op = "fred"     -> [mem |-> gfp_fred(m, call.rp, call.ap), ret |-> 0]
      [] call.op = "inv"      -> gfp_inv(m, call.rp, call.ap)
      [] call.op = "setp"     -> [mem |-> gfp_setp(m, call.rp), ret |-> 0]
      [] call.op = "mpi_setw" -> [mem |-> mpi_setw(m, call.rp, call.w, call.len), ret |-> 0]
      [] call.op = "mpi_copy" -> [mem |-> mpi_copy(m, call.rp, call.ap, call.len), ret |-> 0]
      [] call.op = "mpi_add"  -> mpi_add(m, call.rp, call.ap, call.bp, call.len)
      [] call.op = "mpi_cadd" -> mpi_cadd(m, call.rp, call.ap, call.bp, call.add, call.len)
      [] call.op = "mpi_shr"  -> mpi_shr(m, call.rp, call.ap, call.len)
      [] call.op = "mpi_sub"  -> mpi_sub(m, call.rp, call.ap, call.bp, call.len)
      [] call.op = "mpi_mul"  -> [mem |-> mpi_mul(m, call.rp, call.ap, call.bp, call.len),
                                  ret |-> 0]

\* The memory of gfp_cmp before its final comparison: the caller's buffers
\* and the locals p, ar and br.
CmpMemory ==
    LET m0 == gfp_setp(Alloc(Alloc(Alloc(pre, "p", LEN), "ar", LEN), "br", LEN), "p")
    IN  gfp_fred_round(
            gfp_fred_round(
                gfp_fred_round(gfp_fred_round(m0, "ar", call.ap, "p"), "ar", "ar", "p"),
                "br", call.bp, "p"),
            "br", "br", "p")

FrameOf(v) ==
    /\ DOMAIN mem = DOMAIN pre /\ DOMAIN v.mem = DOMAIN pre
    /\ \A q \in DOMAIN pre \ {call.rp} : mem[q] = pre[q] /\ v.mem[q] = pre[q]
    /\ Len(mem[call.rp]) = Len(pre[call.rp])
    /\ Written <= Len(mem[call.rp])
    /\ \A i \in 1..Len(mem[call.rp]) : i > Written => mem[call.rp][i] = pre[call.rp][i]
    /\ \A i \in 1..Len(v.mem[call.rp]) :
        v.mem[call.rp][i] = IF i <= Written THEN mem[call.rp][i] ELSE Scrubbed[call.rp][i]
    /\ v.ret = call.ret

\* C22: a call whose output buffer is none of its inputs leaves every other
\* buffer as it was and writes the first 8 (field operations), len (mpi_*) or
\* 2 * len (mpi_mul) words of r and nothing above them; the words written and
\* the value returned are the same whatever r held before; the comparisons
\* leave the caller's memory as it was.
C22_Frame ==
    /\ pc = "returned" /\ call.op \in WriteOps /\ call.rp \notin {call.ap, call.bp} =>
        FrameOf(Rerun(Scrubbed))
    /\ pc = "returned" /\ call.op \in CompareOps =>
        /\ mem = pre
        /\ call.op = "cmp" => \A q \in DOMAIN pre : CmpMemory[q] = pre[q]

\* A product of two integers of several words: its top word is written, the
\* word above it and the operands are as before.
C22_Witness ==
    /\ Returned("mpi_mul") /\ call.len > 1
    /\ mem["r"][2 * call.len] # pre["r"][2 * call.len]
    /\ mem["r"][2 * call.len + 1] = pre["r"][2 * call.len + 1]
    /\ mem["a"] = pre["a"] /\ mem["b"] = pre["b"]
    /\ NatEq(NatOf(SubSeq(mem["r"], 1, 2 * call.len)), NatMul(ArgA, ArgB))


\* C21: concurrent calls on pairwise disjoint caller buffers are safe.  When
\* both threads have returned, the heap and the two return values are those
\* of running the two calls one after the other, in either order; a thread
\* that has returned alone already holds the outputs of its call run on its
\* own; no thread ever changes a buffer passed as an operand; and the
\* parameters of a running call stay those its caller has passed.
ConcWhole(m, c) ==
    CASE c.op = "inv"  -> gfp_inv(m, c.rp, c.ap)
      [] c.op = "fred" -> [mem |-> gfp_fred(m, c.rp, c.ap), ret |-> 0]
      [] c.op = "cmp"  -> [mem |-> m, ret |-> gfp_cmp(m, c.ap, c.bp)]
      [] OTHER         -> mpi_sub(m, c.rp, c.ap, c.bp, LEN)
ConcSeq(first, second, one) ==
    /\ call[first].ret = one.ret
    /\ mem.heap[call[first].rp] = one.mem[call[first].rp]
    /\ ConcDone(second) =>
        LET two == ConcWhole(one.mem, call[second])
        IN  /\ call[second].ret = two.ret
            /\ mem.heap = two.mem
ConcOperands ==
    \A t \in Threads : \A q \in {call[t].ap, call[t].bp} : mem.heap[q] = pre[q]
ConcParams(c, f) ==
    /\ "r" \in DOMAIN f => f.r = c.rp
    /\ "a" \in DOMAIN f => f.a = c.ap
    /\ "b" \in DOMAIN f => f.b = c.bp
ConcOwn ==
    \A t \in Threads :
        Len(pc[t]) > 1 =>
            ConcParams(call[t], mem.stack[ConcFrame(t)][pc[t][Len(pc[t]) - 1].fn])
C21_Interleavings ==
    /\ ConcOperands
    /\ ConcOwn
    /\ ConcDone(1) => ConcSeq(1, 2, ConcWhole(pre, call[1]))
    /\ ConcDone(2) => ConcSeq(2, 1, ConcWhole(pre, call[2]))
\* Both threads have returned, one from the inversion of p + 2, which is
\* half of 1, and one from a comparison with the result "less".
C21_Witness ==
    /\ ConcDone(1) /\ ConcDone(2)
    /\ call[1].op = "inv" /\ call[1].ret = M25519_NO_ERROR
    /\ mem.heap["r1"] = gfp_hlv([a |-> OneElem, r |-> Junk], "r", "a")["r"]
    /\ call[2].op = "cmp" /\ call[2].ret = 0 - 1

=============================================================================
